---- MODULE Spec2Model ----
(***************************************************************************)
(* Model of the block-puzzle engine (BlockGame) of jenjenmonster: its      *)
(* React state, the timers it schedules, its session persistence, and the  *)
(* coin/view props it receives from App.                                   *)
(*                                                                         *)
(* A pending setTimeout is a timer with its remaining milliseconds; time    *)
(* passes from one timer's deadline to the next; a handler together with   *)
(* the render and the effects that follow it is one atomic action.         *)
(***************************************************************************)
EXTENDS Integers, Sequences, FiniteSets, TLC

(***************************************************************************)
(* IEEE-754 binary64 arithmetic, as far as the bonus formula needs it      *)
(* (positive normal numbers, round-to-nearest-even).  A natural number is  *)
(* a little-endian sequence of 15-bit limbs; a double is m * 2^e with m a  *)
(* natural of exactly 53 bits.                                             *)
(***************************************************************************)
LimbBits == 15

Pow2(k) == 2 ^ k

LimbBase == Pow2(LimbBits)

MantBits == 53

RECURSIVE BigOfInt(_)
BigOfInt(n) == IF n = 0 THEN << >> ELSE <<n % LimbBase>> \o BigOfInt(n \div LimbBase)

RECURSIVE BigToInt(_)
BigToInt(x) == IF x = << >> THEN 0 ELSE x[1] + LimbBase * BigToInt(Tail(x))

Limb(x, i) == IF i <= Len(x) THEN x[i] ELSE 0

BigBit(x, k) == IF k < 0 THEN 0 ELSE (Limb(x, (k \div LimbBits) + 1) \div Pow2(k % LimbBits)) % 2

RECURSIVE BigTrim(_)
BigTrim(x) == IF x # << >> /\ x[Len(x)] = 0 THEN BigTrim(SubSeq(x, 1, Len(x) - 1)) ELSE x

RECURSIVE TopBit(_)
TopBit(n) == IF n = 0 THEN 0 ELSE 1 + TopBit(n \div 2)

BigBitLen(x) == LET t == BigTrim(x) IN IF t = << >> THEN 0 ELSE LimbBits * (Len(t) - 1) + TopBit(t[Len(t)])

RECURSIVE BitsValue(_, _, _)
BitsValue(x, from, n) == IF n = 0 THEN 0 ELSE BigBit(x, from) + 2 * BitsValue(x, from + 1, n - 1)

\* The natural whose bit k is bit k - s of x: x * 2^s for s >= 0, floor(x / 2^-s) for s < 0.
BigShift(x, s) ==
  LET len == BigBitLen(x) + s
      n == IF len <= 0 THEN 0 ELSE ((len - 1) \div LimbBits) + 1
  IN [i \in 1..n |-> BitsValue(x, LimbBits * (i - 1) - s, LimbBits)]

RECURSIVE BigAddC(_, _, _, _)
BigAddC(x, y, i, carry) ==
  IF i > Len(x) /\ i > Len(y)
  THEN (IF carry = 0 THEN << >> ELSE <<carry>>)
  ELSE LET s == Limb(x, i) + Limb(y, i) + carry
       IN <<s % LimbBase>> \o BigAddC(x, y, i + 1, s \div LimbBase)

BigAdd(x, y) == BigAddC(x, y, 1, 0)

RECURSIVE BigMulSmallC(_, _, _, _)
BigMulSmallC(x, d, i, carry) ==
  IF i > Len(x)
  THEN (IF carry = 0 THEN << >> ELSE <<carry>>)
  ELSE LET p == x[i] * d + carry
       IN <<p % LimbBase>> \o BigMulSmallC(x, d, i + 1, p \div LimbBase)

RECURSIVE BigMul(_, _)
BigMul(x, y) ==
  IF y = << >> THEN << >>
  ELSE BigAdd(BigMulSmallC(x, y[1], 1, 0), <<0>> \o BigMul(x, Tail(y)))

\* Some bit of x below position k is set.
BigSticky(x, k) == \E j \in 0..(k - 1) : BigBit(x, j) = 1

\* The double nearest to x * 2^e (ties to even), for a natural x > 0.
RoundToDouble(x, e) ==
  LET len == BigBitLen(x)
      s == len - MantBits
  IN IF s <= 0
     THEN [m |-> BigShift(x, -s), e |-> e + s]
     ELSE LET q == BigShift(x, -s)
              up == BigBit(x, s - 1) = 1 /\ (BigSticky(x, s - 1) \/ BigBit(q, 0) = 1)
              q1 == IF up THEN BigAdd(q, <<1>>) ELSE q
          IN IF BigBitLen(q1) > MantBits
             THEN [m |-> BigShift(q1, -1), e |-> e + s + 1]
             ELSE [m |-> q1, e |-> e + s]

DblOfInt(n) == RoundToDouble(BigOfInt(n), 0)

DblMul(a, b) == RoundToDouble(BigMul(a.m, b.m), a.e + b.e)

DblAdd(a, b) ==
  LET e == IF a.e < b.e THEN a.e ELSE b.e
  IN RoundToDouble(BigAdd(BigShift(a.m, a.e - e), BigShift(b.m, b.e - e)), e)

\* Math.floor of a positive double whose value fits an integer of the model.
DblFloor(a) == BigToInt(BigShift(a.m, a.e))

\* The mantissa 0x1999999999999A shared by the literals 0.1, 0.2 and 0.8.
Mant_1999 == <<6554, 13107, 26214, 204>>

Dbl_0_1 == [m |-> Mant_1999, e |-> -56]

Dbl_0_2 == [m |-> Mant_1999, e |-> -55]

Dbl_0_8 == [m |-> Mant_1999, e |-> -53]

\* const multiLineMultiplier = totalLines > 3 ? 3 : (totalLines > 1 ? totalLines * 0.8 : 1)
multiLineMultiplier(totalLines) ==
  IF totalLines > 3 THEN DblOfInt(3)
  ELSE IF totalLines > 1 THEN DblMul(DblOfInt(totalLines), Dbl_0_8)
  ELSE DblOfInt(1)

comboMultiplier(newCombo) == DblAdd(DblOfInt(1), DblMul(DblOfInt(newCombo), Dbl_0_2))

streakMultiplier(newStreak) == DblAdd(DblOfInt(1), DblMul(DblOfInt(newStreak), Dbl_0_1))

\* Math.floor(linePoints * multiLineMultiplier * comboMultiplier * streakMultiplier)
totalBonus(totalLines, newCombo, newStreak) ==
  DblFloor(DblMul(DblMul(DblMul(DblOfInt(totalLines * 150), multiLineMultiplier(totalLines)),
                         comboMultiplier(newCombo)),
                  streakMultiplier(newStreak)))


(***************************************************************************)
(* Constants of the program.                                               *)
(***************************************************************************)
GRID_SIZE == 8

PACK_COST == 100

REGEN_DELAY == 300

CLEAR_DELAY == 400

CHECK_DELAY == 500

POWER_UP_COSTS == [BOMB |-> 100, LINE |-> 80, COLOR |-> 120, SINGLE |-> 50, REFRESH |-> 25]

PowerUpTypes == {"BOMB", "LINE", "COLOR", "SINGLE", "REFRESH"}

CellTargeted == {"BOMB", "LINE", "COLOR", "SINGLE"}

\* useState initial value of powerUps
InitialPowerUps == [BOMB |-> 1, LINE |-> 1, COLOR |-> 1, SINGLE |-> 1, REFRESH |-> 1]

NoPowerUps == [BOMB |-> 0, LINE |-> 0, COLOR |-> 0, SINGLE |-> 0, REFRESH |-> 0]

\* null, for the armed power-up and for operations without an argument
None == "none"

\* null for selectedShapeIdx (the model's dock indices start at 1)
NoIdx == 0

\* The persisted value of a key: absent, or one stored value.
Absent == << >>

Present(value) == <<value>>

Idx == 0..(GRID_SIZE - 1)

Cells == Idx \X Idx

\* A cell holds 0 (null) or the index of a palette colour.
EmptyGrid == [p \in Cells |-> 0]

(***************************************************************************)
(* Bounds of the model.                                                    *)
(***************************************************************************)
\* User and environment operations per behaviour.
MaxMoves == 3

\* Pending regeneration timers, and pending deferred clears.
MaxPending == 1

\* Storage operations that fail per behaviour.
MaxFailures == 1

(***************************************************************************)
(* Shape catalog (the templates the model draws from) and rotation.        *)
(***************************************************************************)
T_1x1 == [id |-> "1x1", layout |-> << <<1>> >>, difficulty |-> "EASY"]

T_1x2 == [id |-> "1x2", layout |-> << <<1, 1>> >>, difficulty |-> "EASY"]

T_1x3 == [id |-> "1x3", layout |-> << <<1, 1, 1>> >>, difficulty |-> "MEDIUM"]

T_Plus == [id |-> "Plus", layout |-> << <<0, 1, 0>>, <<1, 1, 1>>, <<0, 1, 0>> >>, difficulty |-> "HARD"]

\* The pools of generateShapes, cut down to the templates above.
single == T_1x1

small == <<T_1x2>>

medium == <<T_1x3>>

hard == <<T_Plus>>

Rows(layout) == Len(layout)

Cols(layout) == Len(layout[1])

\* Variant of rotateLayout that transposes and does not reverse.
rotateLayoutTransposed(layout) ==
  [c \in 1..Cols(layout) |-> [k \in 1..Rows(layout) |-> layout[k][c]]]

rotateLayout(layout) ==
  [c \in 1..Cols(layout) |-> [k \in 1..Rows(layout) |-> layout[Rows(layout) - k + 1][c]]]

\* The 0-based offsets (i, j) with layout[i][j] === 1.
SetBits(layout) ==
  {p \in (0..(Rows(layout) - 1)) \X (0..(Cols(layout) - 1)) : layout[p[1] + 1][p[2] + 1] = 1}

MkShape(template, color) == [tpl |-> template.id, layout |-> template.layout, color |-> color]

\* null for holdShape
NoShape == [tpl |-> "none", layout |-> << >>, color |-> 0]

(***************************************************************************)
(* Placement validator and stuck detection.                                *)
(***************************************************************************)
\* Variant of canPlaceShape without the test for a filled cell (C10 fails under it).
canPlaceShapeInBounds(r, c, shape, currentGrid) ==
  \A p \in SetBits(shape.layout) :
    LET nr == r + p[1]
        nc == c + p[2]
    IN ~(nr < 0 \/ nc < 0 \/ nr >= GRID_SIZE \/ nc >= GRID_SIZE)

\* Variant of canPlaceShape that tests the first row of the layout only.
canPlaceShapeFirstRow(r, c, shape, currentGrid) ==
  \A p \in {q \in SetBits(shape.layout) : q[1] = 0} :
    LET nr == r + p[1]
        nc == c + p[2]
    IN ~(nr < 0 \/ nc < 0 \/ nr >= GRID_SIZE \/ nc >= GRID_SIZE \/ currentGrid[<<nr, nc>>] # 0)

canPlaceShape(r, c, shape, currentGrid) ==
  \A p \in SetBits(shape.layout) :
    LET nr == r + p[1]
        nc == c + p[2]
    IN ~(nr < 0 \/ nc < 0 \/ nr >= GRID_SIZE \/ nc >= GRID_SIZE \/ currentGrid[<<nr, nc>>] # 0)

canPlaceShapeAnywhere(shape, currentGrid) ==
  \E rr \in Idx : \E cc \in Idx : canPlaceShape(rr, cc, shape, currentGrid)

RECURSIVE RotatedTimes(_, _)
RotatedTimes(layout, n) == IF n = 0 THEN layout ELSE RotatedTimes(rotateLayout(layout), n - 1)

canFitShapeWithRotation(shape, g) ==
  \E i \in 0..3 : canPlaceShapeAnywhere([shape EXCEPT !.layout = RotatedTimes(shape.layout, i)], g)

canMove(currentShapes, hold, currentGrid) ==
  \/ \E k \in 1..Len(currentShapes) : canFitShapeWithRotation(currentShapes[k], currentGrid)
  \/ (hold # NoShape /\ canFitShapeWithRotation(hold, currentGrid))

hasPowerUps(pu) == \E t \in PowerUpTypes : pu[t] > 0

canBuy(cn) == \E t \in PowerUpTypes : cn >= POWER_UP_COSTS[t]


(***************************************************************************)
(* State.                                                                  *)
(***************************************************************************)
VARIABLES
  grid,              \* useState grid: Cells -> 0 | colour
  shapes,            \* useState shapes: the dock, a sequence of pieces
  holdShape,         \* useState holdShape: a piece or NoShape
  score,
  selectedShapeIdx,  \* NoIdx or a 1-based index into shapes
  isGameOver,
  isSessionLoaded,
  powerUps,          \* inventory: PowerUpTypes -> Nat
  activePowerUp,     \* None or the armed kind
  rescueMode,
  comboCount,
  streakCount,
  gameRound,         \* gameRoundRef.current
  chk,               \* the pending stuck check (gameOverTimeoutRef) with its closure, or NoCheck
  regens,            \* pending setTimeout(generateShapes, 300): ms remaining, oldest first
  clears,            \* pending deferred clears with their closures, oldest first
  coins,             \* App state, passed as a prop
  isActive,          \* currentView === 'GAME'
  stored,            \* the persisted session ('current_session'): Absent or Present(snapshot)
  storedPU,          \* the persisted inventory ('powerups'): Absent or Present(inventory)
  gameOverCount,     \* history: onGameOver calls so far
  gameOverScore,     \* history: the argument of the latest onGameOver call
  last,              \* history: the operation that produced this state
  moves,             \* user and environment operations so far
  fails,             \* storage operations that failed so far
  cards,             \* the CardComponent instances of one card: instance -> its state
  urls,              \* the blob URLs created so far: handle -> [owner, revoked]
  generatingCardIds, \* the module-level set of card ids under generation
  dbImage,           \* storageService.getCard(card.id) returns an image
  inventoryImageUrl, \* App inventory: the imageUrl of the card
  pack,              \* PackOpener: the pack that holds the card, and its bulk save
  inventory,         \* App useState inventory: a sequence of cards
  cardStore,         \* the ids of the cards in the persisted card store
  level,             \* App useState level
  currentXP,         \* App useState currentXP
  award              \* history: the latest meld, its name and the amounts it granted

core == <<grid, shapes, holdShape, score, comboCount, streakCount, powerUps, rescueMode, isGameOver>>

gameVars == <<grid, shapes, holdShape, score, selectedShapeIdx, isGameOver, isSessionLoaded,
              powerUps, activePowerUp, rescueMode, comboCount, streakCount, gameRound,
              chk, regens, clears, coins, isActive, stored, storedPU,
              gameOverCount, gameOverScore, last, moves, fails>>

cardVars == <<cards, urls, generatingCardIds, dbImage, inventoryImageUrl, pack>>

appVars == <<inventory, cardStore, level, currentXP, award>>

vars == <<gameVars, cardVars, appVars>>

\* An operation: its name, its integer arguments, its power-up kind, its outcome.
Op(name, arg, res) == [op |-> name, arg |-> arg, kind |-> None, res |-> res]

OpKind(name, kind, res) == [op |-> name, arg |-> << >>, kind |-> kind, res |-> res]

(***************************************************************************)
(* Sessions a previous run of the program may have left in the store, and  *)
(* the cells the model's player clicks.                                    *)
(***************************************************************************)
Diagonal == {<<i, i>> : i \in Idx}

SeedColor(p) == 1 + ((p[1] + p[2]) % 2)

HoleGrid(holes) == [p \in Cells |-> IF p \in holes THEN 0 ELSE SeedColor(p)]

Session(g, shp, hold, sc, n) ==
  [grid |-> g, shapes |-> shp, holdShape |-> hold, score |-> sc,
   comboCount |-> n, streakCount |-> n, rescueMode |-> FALSE, isGameOver |-> FALSE]

\* Two pieces and room for each: clearing and non-clearing placements, one
\* clearing placement after a run of 17.
SeedPlayable ==
  Session(HoleGrid(Diagonal \cup {<<7, 6>>}),
          <<MkShape(T_1x1, 3), MkShape(T_1x2, 4)>>, NoShape, 12, 17)

\* One piece that fits nowhere.
SeedStuck == Session(HoleGrid(Diagonal), <<MkShape(T_1x2, 4)>>, NoShape, 12, 0)

\* One piece that fits nowhere, and another one held.
SeedStuckHeld == Session(HoleGrid(Diagonal), <<MkShape(T_1x2, 4)>>, MkShape(T_1x3, 5), 12, 0)

SeedSessions == {Absent, Present(SeedPlayable), Present(SeedStuck), Present(SeedStuckHeld)}

\* The coins App holds and the inventory the store holds at startup.
SeedWallets ==
  {[coins |-> 0, powerUps |-> Present(NoPowerUps)],
   [coins |-> 100, powerUps |-> Present(NoPowerUps)],
   [coins |-> 100, powerUps |-> Absent],
   [coins |-> 150, powerUps |-> Present(NoPowerUps)]}

ClickCells == {<<7, 6>>, <<7, 7>>, <<6, 6>>}

\* The power-up buttons the player presses: one per kind.
PlayerKinds == PowerUpTypes

\* The kinds Math.random draws as a milestone reward.
RewardDraws == PowerUpTypes

\* The outcomes of Math.random the model draws in generateShapes:
\* <<slot 1 is hard, slot 2 is medium, slot 3 is the single>>.
Draws == {<<FALSE, FALSE, TRUE>>, <<TRUE, TRUE, FALSE>>}

(***************************************************************************)
(* generateShapes: the dock it sets (shuffles drawn as the identity).      *)
(***************************************************************************)
generateShapes(d) ==
  LET pool1 == IF d[1] THEN hard ELSE medium
      s1 == pool1[1]
      pool2 == IF d[2] THEN medium ELSE small
      s2 == pool2[1]
      s3 == IF d[3] THEN single ELSE small[1]
      templates == <<s1, s2, s3>>
  IN [i \in 1..3 |-> MkShape(templates[i], i)]

(***************************************************************************)
(* The stuck-check effect (useEffect on shapes, isGameOver, rescueMode,    *)
(* isSessionLoaded, grid, isActive) and checkGameOver's scheduling.        *)
(***************************************************************************)
\* Variant of the guard without the test of rescueMode (C3 fails under it).
StuckCheckGuardNoRescue(shp, over, rescue, loaded, active) ==
  Len(shp) > 0 /\ ~over /\ loaded /\ active

StuckCheckGuard(shp, over, rescue, loaded, active) ==
  Len(shp) > 0 /\ ~over /\ ~rescue /\ loaded /\ active

\* Variant of the timer whose closure holds the score of the first render
\* (C5 fails under it).
CheckTimerInitialScore(g, shp, hold, pu, cn, sc, rnd) ==
  [t |-> CHECK_DELAY, round |-> rnd, grid |-> g, shapes |-> shp, holdShape |-> hold,
   powerUps |-> pu, coins |-> cn, score |-> 0]

\* Variant of the timer that captures the round of the first game instead
\* of gameRoundRef.current (C31 fails under it).
CheckTimerFirstRound(g, shp, hold, pu, cn, sc, rnd) ==
  [t |-> CHECK_DELAY, round |-> 0, grid |-> g, shapes |-> shp, holdShape |-> hold,
   powerUps |-> pu, coins |-> cn, score |-> sc]

\* The timer checkGameOver schedules, with the values its closure captures.
CheckTimer(g, shp, hold, pu, cn, sc, rnd) ==
  [t |-> CHECK_DELAY, round |-> rnd, grid |-> g, shapes |-> shp, holdShape |-> hold,
   powerUps |-> pu, coins |-> cn, score |-> sc]

\* No stuck check is pending.
NoCheck == CheckTimer(EmptyGrid, << >>, NoShape, NoPowerUps, 0, 0, -1)

\* The render after a handler: arrays is TRUE when the handler set grid or
\* shapes (a new array always differs); base is the check left pending.
Effects(arrays, base) ==
  LET changed == \/ arrays
                 \/ isGameOver' # isGameOver
                 \/ rescueMode' # rescueMode
                 \/ isSessionLoaded' # isSessionLoaded
                 \/ isActive' # isActive
  IN chk' = IF changed /\ StuckCheckGuard(shapes', isGameOver', rescueMode', isSessionLoaded', isActive')
            THEN CheckTimer(grid', shapes', holdShape', powerUps', coins', score', gameRound')
            ELSE base

\* useEffect(() => { if (powerUpsLoaded) savePowerUps(powerUps) })
SavePowerUps == storedPU' = IF isSessionLoaded' THEN Present(powerUps') ELSE storedPU

\* A storage write or delete: it stores value, or fails and stores nothing.
StorageOp(ok, value) ==
  /\ ok \/ fails < MaxFailures
  /\ stored' = IF ok THEN value ELSE stored
  /\ fails' = IF ok THEN fails ELSE fails + 1

NoStorageOp == UNCHANGED <<stored, fails>>

\* Variant of the snapshot that leaves the held piece out (C7 fails under it).
SnapshotWithoutHold ==
  [grid |-> grid, shapes |-> shapes, holdShape |-> NoShape, score |-> score,
   comboCount |-> comboCount, streakCount |-> streakCount,
   rescueMode |-> rescueMode, isGameOver |-> isGameOver]

Snapshot ==
  [grid |-> grid, shapes |-> shapes, holdShape |-> holdShape, score |-> score,
   comboCount |-> comboCount, streakCount |-> streakCount,
   rescueMode |-> rescueMode, isGameOver |-> isGameOver]

\* Variant of saveState that saves in terminal too (C6 fails under it).
saveStateInTerminal(ok) ==
  IF ~isSessionLoaded THEN NoStorageOp
  ELSE StorageOp(ok, Present(Snapshot))

\* saveState
saveState(ok) ==
  IF ~isSessionLoaded THEN NoStorageOp
  ELSE IF isGameOver THEN StorageOp(ok, Absent)
  ELSE StorageOp(ok, Present(Snapshot))

Move == /\ moves < MaxMoves
        /\ moves' = moves + 1

(***************************************************************************)
(* CardComponent: the display instances of one card and their blob URLs.   *)
(***************************************************************************)
\* Blob URLs created per behaviour.
MaxUrls == 2

\* The instances Collection renders of one card: in the grid and in the modal.
Insts == {"grid", "modal"}

\* The instances whose card prop is the inventory's object (the modal's is
\* the selectedCard state of Collection, set when the card is opened).
FollowsInventory == {"grid"}

\* card.id
CardId == "card"

\* card.imageUrl: undefined, 'stored', or the image itself.
ImageUrls == {"none", "stored", "data"}

\* An instance before its mount: state and refs as constructed. mount is
\* "new", "mounted" or "unmounted"; a blob URL is its index in urls, 0 is
\* null; timer is the debounce timer of the latest effect run; load and gen
\* are getCard and generateCardArt in flight, "live" while the mounted flag
\* of their effect run is true; loadUrl is card.imageUrl in the closure of the
\* load; retry and edit are handleRetryGeneration and confirmEditArt in flight.
NewCard ==
  [mount |-> "new", isVisible |-> FALSE, generatedImageBlobUrl |-> 0, blobUrlRef |-> 0,
   imageStatus |-> "idle", timer |-> "none", load |-> "none", gen |-> "none",
   retry |-> FALSE, edit |-> FALSE, imageUrl |-> "none", loadUrl |-> "none"]

\* PackOpener before the pack of the card is opened: appState; first, the
\* card is packCards[0]; optimistic, its generateCardArt is in flight;
\* cache, generatedImagesCache holds its image; bulk, the saveCards call of
\* addToCollection: "none", in flight with the imageUrl of the card it was
\* given ("pending none", "pending data"), or "done".
NoPack ==
  [appState |-> "IDLE", first |-> FALSE, optimistic |-> FALSE, cache |-> FALSE, bulk |-> "none"]

\* No card is mounted and no blob URL exists.
CardIdle ==
  /\ pack = NoPack
  /\ cards = [i \in Insts |-> NewCard]
  /\ urls = << >>
  /\ generatingCardIds = {}
  /\ dbImage = FALSE
  /\ inventoryImageUrl = "none"

(***************************************************************************)
(* App: the collection, the card store, coins and experience.              *)
(***************************************************************************)
\* Cards of a collection, and levels reached, per behaviour.
MaxCards == 3
MaxLevel == 5

Names == {"a", "b"}
Rarities == {"Common", "Uncommon", "Rare", "Legendary", "Mythical"}
SeedRarities == {"Common", "Rare", "Legendary"}

MELD_REWARDS ==
  [r \in Rarities |->
     CASE r = "Common" -> [coins |-> 15, xp |-> 25]
       [] r = "Uncommon" -> [coins |-> 30, xp |-> 60]
       [] r = "Rare" -> [coins |-> 100, xp |-> 200]
       [] r = "Legendary" -> [coins |-> 500, xp |-> 1000]
       [] r = "Mythical" -> [coins |-> 1500, xp |-> 2500]]

\* Math.floor(BASE_XP * Math.pow(level, XP_GROWTH)), BASE_XP = 200 and
\* XP_GROWTH = 1.4, for the levels 1 .. MaxLevel.
getXpForNextLevel(l) == <<200, 527, 931, 1392, 1903>>[l]

NoAward == [name |-> "", coins |-> 0, xp |-> 0]

AppIdle ==
  /\ inventory = << >>
  /\ cardStore = {}
  /\ level = 1
  /\ currentXP = 0
  /\ award = NoAward

(***************************************************************************)
(* Initial state: the component as constructed, over what the store holds. *)
(***************************************************************************)
GameInit ==
  /\ grid = EmptyGrid
  /\ shapes = << >>
  /\ holdShape = NoShape
  /\ score = 0
  /\ selectedShapeIdx = NoIdx
  /\ isGameOver = FALSE
  /\ isSessionLoaded = FALSE
  /\ powerUps = InitialPowerUps
  /\ activePowerUp = None
  /\ rescueMode = FALSE
  /\ comboCount = 0
  /\ streakCount = 0
  /\ gameRound = 0
  /\ chk = NoCheck
  /\ regens = << >>
  /\ clears = << >>
  /\ \E w \in SeedWallets : coins = w.coins /\ storedPU = w.powerUps
  /\ isActive = TRUE
  /\ stored \in SeedSessions
  /\ gameOverCount = 0
  /\ gameOverScore = 0
  /\ last = Op("init", << >>, None)
  /\ moves = 0
  /\ fails = 0

\* The game as constructed, no card mounted, and an empty collection.
Init == GameInit /\ CardIdle /\ AppIdle


(***************************************************************************)
(* Startup: init() of the mount effect, once both loads have returned.     *)
(***************************************************************************)
Restorable(loaded) ==
  /\ loaded # Absent
  /\ ~loaded[1].isGameOver
  /\ (loaded[1].score > 0 \/ Len(loaded[1].shapes) > 0)

Startup(ok) ==
  LET loaded == IF ok THEN stored ELSE Absent
      session == loaded[1]
  IN /\ UNCHANGED <<cardVars, appVars>>
     /\ ~isSessionLoaded
     /\ ok \/ fails < MaxFailures
     /\ fails' = IF ok THEN fails ELSE fails + 1
     /\ powerUps' = IF storedPU # Absent THEN storedPU[1] ELSE powerUps
     /\ IF Restorable(loaded)
        THEN /\ grid' = session.grid
             /\ shapes' = session.shapes
             /\ holdShape' = session.holdShape
             /\ score' = session.score
             /\ comboCount' = session.comboCount
             /\ streakCount' = session.streakCount
             /\ rescueMode' = session.rescueMode
             /\ isGameOver' = session.isGameOver
        ELSE /\ \E d \in Draws : shapes' = generateShapes(d)
             /\ UNCHANGED <<grid, holdShape, score, comboCount, streakCount, rescueMode, isGameOver>>
     /\ isSessionLoaded' = TRUE
     /\ SavePowerUps
     /\ last' = Op("startup", << >>, IF Restorable(loaded) THEN "restored" ELSE "fresh")
     /\ UNCHANGED <<selectedShapeIdx, activePowerUp, gameRound, regens, clears, coins, isActive,
                    stored, gameOverCount, gameOverScore, moves>>
     /\ Effects(TRUE, chk)

(***************************************************************************)
(* Dock buttons.                                                           *)
(***************************************************************************)
\* handleRotateShape, for a selected piece
RotateSelected ==
  /\ shapes' = [shapes EXCEPT ![selectedShapeIdx].layout = rotateLayout(@)]
  /\ UNCHANGED <<grid, holdShape, score, selectedShapeIdx, isGameOver, isSessionLoaded, powerUps,
                 activePowerUp, rescueMode, comboCount, streakCount, gameRound, regens, clears,
                 coins, isActive, stored, storedPU, gameOverCount, gameOverScore, fails>>
  /\ Effects(TRUE, chk)

\* onClick of dock piece idx: rotate it if it is selected, select it otherwise.
SelectShape(idx) ==
  /\ UNCHANGED <<cardVars, appVars>>
  /\ isSessionLoaded /\ isActive /\ ~isGameOver
  /\ idx \in 1..Len(shapes)
  /\ Move
  /\ last' = Op("select", <<idx>>, IF selectedShapeIdx = idx THEN "rotated" ELSE "selected")
  /\ IF selectedShapeIdx = idx
     THEN RotateSelected
     ELSE /\ selectedShapeIdx' = idx
          /\ activePowerUp' = None
          /\ UNCHANGED <<grid, shapes, holdShape, score, isGameOver, isSessionLoaded, powerUps,
                         rescueMode, comboCount, streakCount, gameRound, chk, regens, clears,
                         coins, isActive, stored, storedPU, gameOverCount, gameOverScore, fails>>

\* onClick of the rotate button: handleRotateShape
RotateButton ==
  /\ UNCHANGED <<cardVars, appVars>>
  /\ isSessionLoaded /\ isActive /\ ~isGameOver
  /\ selectedShapeIdx # NoIdx
  /\ Move
  /\ last' = Op("rotate", <<selectedShapeIdx>>, "rotated")
  /\ RotateSelected

\* Variant of the removal that drops the last piece (C9 fails under it).
RemoveLast(seq, i) == SubSeq(seq, 1, Len(seq) - 1)

RemoveAt(seq, i) == SubSeq(seq, 1, i - 1) \o SubSeq(seq, i + 1, Len(seq))

\* Variant of the hold that removes the selected piece from the dock in a swap
\* too (C18 fails under it).
holdNewShapesRemoved(shp, idx, hold) == RemoveAt(shp, idx)

\* handleHoldShape: newShapes
holdNewShapes(shp, idx, hold) ==
  IF hold # NoShape THEN [shp EXCEPT ![idx] = hold] ELSE RemoveAt(shp, idx)

\* Variant of the hold that leaves the piece selected (C39 fails under it).
holdSelectionKept(idx) == idx

\* handleHoldShape: setSelectedShapeIdx(null)
holdSelection(idx) == NoIdx

\* handleHoldShape
HoldButton ==
  /\ UNCHANGED <<cardVars, appVars>>
  /\ isSessionLoaded /\ isActive /\ ~isGameOver
  /\ Move
  /\ IF selectedShapeIdx = NoIdx
     THEN /\ last' = Op("hold", << >>, "ignored")
          /\ UNCHANGED <<grid, shapes, holdShape, score, selectedShapeIdx, isGameOver,
                         isSessionLoaded, powerUps, activePowerUp, rescueMode, comboCount,
                         streakCount, gameRound, chk, regens, clears, coins, isActive, stored,
                         storedPU, gameOverCount, gameOverScore, fails>>
     ELSE LET shapeToHold == shapes[selectedShapeIdx]
              newShapes == holdNewShapes(shapes, selectedShapeIdx, holdShape)
          IN /\ Len(newShapes) = 0 => Len(regens) < MaxPending
             /\ last' = Op("hold", <<selectedShapeIdx>>, IF holdShape # NoShape THEN "swapped" ELSE "stashed")
             /\ holdShape' = shapeToHold
             /\ shapes' = newShapes
             /\ selectedShapeIdx' = holdSelection(selectedShapeIdx)
             /\ regens' = IF Len(newShapes) = 0 THEN Append(regens, REGEN_DELAY) ELSE regens
             /\ UNCHANGED <<grid, score, isGameOver, isSessionLoaded, powerUps, activePowerUp,
                            rescueMode, comboCount, streakCount, gameRound, clears, coins,
                            isActive, stored, storedPU, gameOverCount, gameOverScore, fails>>
             /\ Effects(TRUE, chk)

(***************************************************************************)
(* Timers.                                                                 *)
(***************************************************************************)
TimerPending == chk # NoCheck \/ regens # << >> \/ clears # << >>

TimerDue ==
  \/ (chk # NoCheck /\ chk.t = 0)
  \/ \E i \in 1..Len(regens) : regens[i] = 0
  \/ \E i \in 1..Len(clears) : clears[i].t = 0

Remaining ==
  (IF chk # NoCheck THEN {chk.t} ELSE {})
    \cup {regens[i] : i \in 1..Len(regens)}
    \cup {clears[i].t : i \in 1..Len(clears)}

\* The time until the next pending timer is due.
NextDue == CHOOSE t \in Remaining : \A u \in Remaining : t <= u

\* Time passes until the next pending timer is due.
Tick ==
  /\ UNCHANGED <<cardVars, appVars>>
  /\ TimerPending /\ ~TimerDue
  /\ chk' = IF chk = NoCheck THEN NoCheck ELSE [chk EXCEPT !.t = @ - NextDue]
  /\ regens' = [i \in 1..Len(regens) |-> regens[i] - NextDue]
  /\ clears' = [i \in 1..Len(clears) |-> [clears[i] EXCEPT !.t = @ - NextDue]]
  /\ last' = Op("tick", << >>, None)
  /\ UNCHANGED <<grid, shapes, holdShape, score, selectedShapeIdx, isGameOver, isSessionLoaded,
                 powerUps, activePowerUp, rescueMode, comboCount, streakCount, gameRound, coins,
                 isActive, stored, storedPU, gameOverCount, gameOverScore, moves, fails>>

\* setTimeout(generateShapes, 300) fires.
FireRegen(d) ==
  /\ UNCHANGED <<cardVars, appVars>>
  /\ regens # << >> /\ regens[1] = 0
  /\ regens' = Tail(regens)
  /\ shapes' = generateShapes(d)
  /\ last' = Op("regen", << >>, None)
  /\ UNCHANGED <<grid, holdShape, score, selectedShapeIdx, isGameOver, isSessionLoaded, powerUps,
                 activePowerUp, rescueMode, comboCount, streakCount, gameRound, clears, coins,
                 isActive, stored, storedPU, gameOverCount, gameOverScore, moves, fails>>
  /\ Effects(TRUE, chk)

\* The grid the deferred clear of a clearing placement sets.
finalGrid(newGrid, rows, cols) ==
  [p \in Cells |-> IF p[1] \in rows \/ p[2] \in cols THEN 0 ELSE newGrid[p]]

\* The deferred clear (setTimeout 400) of a clearing placement fires.
FireClear(d) ==
  /\ UNCHANGED <<cardVars, appVars>>
  /\ clears # << >> /\ clears[1].t = 0
  /\ clears' = Tail(clears)
  /\ grid' = finalGrid(clears[1].newGrid, clears[1].rows, clears[1].cols)
  /\ shapes' = IF clears[1].needsNewShapes THEN generateShapes(d) ELSE shapes
  /\ last' = Op("clear", << >>, None)
  /\ UNCHANGED <<holdShape, score, selectedShapeIdx, isGameOver, isSessionLoaded, powerUps,
                 activePowerUp, rescueMode, comboCount, streakCount, gameRound, regens, coins,
                 isActive, stored, storedPU, gameOverCount, gameOverScore, moves, fails>>
  /\ Effects(TRUE, chk)

\* The stuck check (setTimeout 500 of checkGameOver) fires, on its closure.
FireCheck ==
  /\ UNCHANGED <<cardVars, appVars>>
  /\ chk # NoCheck /\ chk.t = 0
  /\ IF gameRound # chk.round \/ Len(chk.shapes) = 0
     THEN /\ last' = Op("check", << >>, "stale round")
          /\ UNCHANGED <<rescueMode, isGameOver, coins, gameOverCount, gameOverScore, stored, fails>>
     ELSE IF canMove(chk.shapes, chk.holdShape, chk.grid)
     THEN /\ rescueMode' = FALSE
          /\ last' = Op("check", << >>, "playable")
          /\ UNCHANGED <<isGameOver, coins, gameOverCount, gameOverScore, stored, fails>>
     ELSE IF hasPowerUps(chk.powerUps) \/ canBuy(chk.coins)
     THEN /\ rescueMode' = TRUE
          /\ last' = Op("check", << >>, "rescue")
          /\ UNCHANGED <<isGameOver, coins, gameOverCount, gameOverScore, stored, fails>>
     ELSE /\ \E ok \in BOOLEAN : StorageOp(ok, Absent)
          /\ isGameOver' = TRUE
          /\ gameOverCount' = gameOverCount + 1
          /\ gameOverScore' = chk.score
          /\ coins' = coins + (chk.score \div 10)
          /\ last' = Op("check", << >>, "terminal")
          /\ UNCHANGED rescueMode
  /\ UNCHANGED <<grid, shapes, holdShape, score, selectedShapeIdx, isSessionLoaded, powerUps,
                 activePowerUp, comboCount, streakCount, gameRound, regens, clears, isActive,
                 storedPU, moves>>
  /\ Effects(FALSE, NoCheck)


(***************************************************************************)
(* Power-ups.                                                              *)
(***************************************************************************)
\* Variant of the affected cells whose cross is the row alone (C14 fails under it).
getPowerUpAffectedCellsRow(r, c, type, g) ==
  CASE type = "BOMB" -> {p \in Cells : p[1] \in (r - 1)..(r + 1) /\ p[2] \in (c - 1)..(c + 1)}
    [] type = "LINE" -> {p \in Cells : p[1] = r}
    [] type = "COLOR" -> IF g[<<r, c>>] # 0 THEN {p \in Cells : g[p] = g[<<r, c>>]} ELSE {}
    [] type = "SINGLE" -> {<<r, c>>}
    [] OTHER -> {}

getPowerUpAffectedCells(r, c, type, g) ==
  CASE type = "BOMB" -> {p \in Cells : p[1] \in (r - 1)..(r + 1) /\ p[2] \in (c - 1)..(c + 1)}
    [] type = "LINE" -> {p \in Cells : p[1] = r \/ p[2] = c}
    [] type = "COLOR" -> IF g[<<r, c>>] # 0 THEN {p \in Cells : g[p] = g[<<r, c>>]} ELSE {}
    [] type = "SINGLE" -> {<<r, c>>}
    [] OTHER -> {}

\* Variant of the early returns that lets a single-cell power-up through on an
\* empty cell (C15 fails under it).
invalidTargetColorOnly(type, r, c, g) ==
  \/ type = "REFRESH"
  \/ (type = "COLOR" /\ g[<<r, c>>] = 0)

\* The early returns of executePowerUp before the affected cells are computed.
invalidTarget(type, r, c, g) ==
  \/ type = "REFRESH"
  \/ (type = "COLOR" /\ g[<<r, c>>] = 0)
  \/ (type = "SINGLE" /\ g[<<r, c>>] = 0)

\* Variant of executePowerUp that leaves the kind armed after its use
\* (C37 fails under it).
executePowerUpStaysArmed(r, c) ==
  LET cells == getPowerUpAffectedCells(r, c, activePowerUp, grid)
      cleared == {p \in cells : grid[p] # 0}
      rejected == invalidTarget(activePowerUp, r, c, grid) \/ cells = {}
  IN IF rejected
     THEN /\ last' = Op("click", <<r, c>>, "invalid target")
          /\ UNCHANGED <<grid, score, powerUps, activePowerUp, rescueMode, storedPU, chk>>
     ELSE /\ last' = Op("click", <<r, c>>, "powerup")
          /\ score' = score + (Cardinality(cleared) * 20)
          /\ grid' = [p \in Cells |-> IF p \in cells THEN 0 ELSE grid[p]]
          /\ powerUps' = [powerUps EXCEPT ![activePowerUp] = @ - 1]
          /\ activePowerUp' = activePowerUp
          /\ rescueMode' = FALSE
          /\ SavePowerUps
          /\ Effects(TRUE, chk)

\* executePowerUp(r, c) with activePowerUp armed
executePowerUp(r, c) ==
  LET cells == getPowerUpAffectedCells(r, c, activePowerUp, grid)
      cleared == {p \in cells : grid[p] # 0}
      rejected == invalidTarget(activePowerUp, r, c, grid) \/ cells = {}
  IN IF rejected
     THEN /\ last' = Op("click", <<r, c>>, "invalid target")
          /\ UNCHANGED <<grid, score, powerUps, activePowerUp, rescueMode, storedPU, chk>>
     ELSE /\ last' = Op("click", <<r, c>>, "powerup")
          /\ score' = score + (Cardinality(cleared) * 20)
          /\ grid' = [p \in Cells |-> IF p \in cells THEN 0 ELSE grid[p]]
          /\ powerUps' = [powerUps EXCEPT ![activePowerUp] = @ - 1]
          /\ activePowerUp' = None
          /\ rescueMode' = FALSE
          /\ SavePowerUps
          /\ Effects(TRUE, chk)

\* Variant of deductCoins without the test of the balance (C16 fails under it).
deductCoinsUnchecked(cn, amount) == [ok |-> TRUE, coins |-> cn - amount]

\* deductCoins(amount): whether it paid, and the balance it leaves.
deductCoins(cn, amount) ==
  IF cn >= amount THEN [ok |-> TRUE, coins |-> cn - amount] ELSE [ok |-> FALSE, coins |-> cn]

\* Variant of activateRefresh that spends a unit on a purchase too (C17 fails under it).
refreshInventorySpent(pu, fromPurchase) == [pu EXCEPT !.REFRESH = @ - 1]

\* activateRefresh: if (!fromPurchase) setPowerUps(prev => ({...prev, REFRESH: prev.REFRESH - 1}))
refreshInventory(pu, fromPurchase) == IF fromPurchase THEN pu ELSE [pu EXCEPT !.REFRESH = @ - 1]

\* handlePowerUpClick(type)
PowerUpClick(type) ==
  LET cost == POWER_UP_COSTS[type]
      paid == deductCoins(coins, cost)
      bought == powerUps[type] <= 0 /\ paid.ok
      refresh == type = "REFRESH" /\ (bought \/ powerUps[type] > 0)
  IN /\ UNCHANGED <<cardVars, appVars>>
     /\ isSessionLoaded /\ isActive /\ ~isGameOver
     /\ Move
     /\ coins' = IF bought THEN paid.coins ELSE coins
     /\ IF powerUps[type] <= 0 /\ ~bought
        THEN /\ last' = OpKind("powerup", type, "not enough coins")
             /\ UNCHANGED <<shapes, powerUps, activePowerUp, selectedShapeIdx, rescueMode>>
        ELSE IF refresh
        THEN \* activateRefresh(fromPurchase)
             /\ last' = OpKind("powerup", type, IF bought THEN "bought refresh" ELSE "refresh")
             /\ powerUps' = refreshInventory(powerUps, bought)
             /\ \E d \in Draws : shapes' = generateShapes(d)
             /\ selectedShapeIdx' = NoIdx
             /\ rescueMode' = FALSE
             /\ UNCHANGED activePowerUp
        ELSE IF bought
        THEN /\ last' = OpKind("powerup", type, "bought")
             /\ powerUps' = [powerUps EXCEPT ![type] = @ + 1]
             /\ activePowerUp' = type
             /\ selectedShapeIdx' = NoIdx
             /\ UNCHANGED <<shapes, rescueMode>>
        ELSE /\ last' = OpKind("powerup", type, "toggled")
             /\ activePowerUp' = IF activePowerUp = type THEN None ELSE type
             /\ selectedShapeIdx' = NoIdx
             /\ UNCHANGED <<shapes, powerUps, rescueMode>>
     /\ UNCHANGED <<grid, holdShape, score, isGameOver, isSessionLoaded, comboCount, streakCount,
                    gameRound, regens, clears, isActive, stored, gameOverCount, gameOverScore, fails>>
     /\ SavePowerUps
     /\ Effects(refresh, chk)

(***************************************************************************)
(* handleGridClick.                                                        *)
(***************************************************************************)
Targets(r, c, shape) == {<<r + p[1], c + p[2]>> : p \in SetBits(shape.layout)}

FullRows(g) == {i \in Idx : \A j \in Idx : g[<<i, j>>] # 0}

FullCols(g) == {j \in Idx : \A i \in Idx : g[<<i, j>>] # 0}

\* Variant of the milestone that counts lines only (C11 fails under it).
milestoneLinesOnly(totalLines, newCombo, newStreak) == totalLines >= 3

\* if (totalLines >= 3 || newCombo >= 4 || newStreak >= 5)
milestone(totalLines, newCombo, newStreak) == totalLines >= 3 \/ newCombo >= 4 \/ newStreak >= 5

\* Variant of the plain placement that leaves the streak alone (C40 fails
\* under it).
brokenStreakKept(s) == s

\* handleGridClick, no line completed: setStreakCount(0)
brokenStreak(s) == 0

\* The accepted placement of the selected piece at (r, c).
PlaceShape(r, c) ==
  LET shape == shapes[selectedShapeIdx]
      targets == Targets(r, c, shape) \cap Cells
      newGrid == [p \in Cells |-> IF p \in targets THEN shape.color ELSE grid[p]]
      placedCount == Cardinality(targets)
      linesToClearRow == FullRows(newGrid)
      linesToClearCol == FullCols(newGrid)
      totalLines == Cardinality(linesToClearRow) + Cardinality(linesToClearCol)
      newCombo == comboCount + 1
      newStreak == streakCount + 1
      remainingShapes == RemoveAt(shapes, selectedShapeIdx)
      needsNewShapes == Len(remainingShapes) = 0
  IN IF totalLines > 0
     THEN /\ Len(clears) < MaxPending
          /\ last' = Op("click", <<r, c>>, "cleared")
          /\ comboCount' = newCombo
          /\ streakCount' = newStreak
          /\ IF milestone(totalLines, newCombo, newStreak)
             THEN \E rewardType \in RewardDraws : powerUps' = [powerUps EXCEPT ![rewardType] = @ + 1]
             ELSE powerUps' = powerUps
          /\ shapes' = remainingShapes
          /\ score' = score + placedCount + totalBonus(totalLines, newCombo, newStreak)
          /\ selectedShapeIdx' = NoIdx
          /\ clears' = Append(clears, [t |-> CLEAR_DELAY, newGrid |-> newGrid,
                                       targets |-> targets,
                                       rows |-> linesToClearRow, cols |-> linesToClearCol,
                                       needsNewShapes |-> needsNewShapes])
          /\ UNCHANGED <<grid, regens>>
     ELSE /\ needsNewShapes => Len(regens) < MaxPending
          /\ last' = Op("click", <<r, c>>, "placed")
          /\ streakCount' = brokenStreak(streakCount)
          /\ comboCount' = 0
          /\ grid' = newGrid
          /\ shapes' = remainingShapes
          /\ score' = score + placedCount
          /\ selectedShapeIdx' = NoIdx
          /\ regens' = IF needsNewShapes THEN Append(regens, REGEN_DELAY) ELSE regens
          /\ UNCHANGED <<powerUps, clears>>

GridClick(r, c) ==
  /\ UNCHANGED <<cardVars, appVars>>
  /\ isSessionLoaded /\ isActive
  /\ Move
  /\ UNCHANGED <<holdShape, isGameOver, isSessionLoaded, gameRound, coins, isActive, stored,
                 gameOverCount, gameOverScore, fails>>
  /\ IF isGameOver /\ ~rescueMode
     THEN /\ last' = Op("click", <<r, c>>, "ignored")
          /\ UNCHANGED <<grid, shapes, score, selectedShapeIdx, powerUps, activePowerUp, rescueMode,
                         comboCount, streakCount, chk, regens, clears, storedPU>>
     ELSE IF activePowerUp # None
     THEN /\ UNCHANGED <<shapes, selectedShapeIdx, comboCount, streakCount, regens, clears>>
          /\ executePowerUp(r, c)
     ELSE IF selectedShapeIdx = NoIdx
     THEN /\ last' = Op("click", <<r, c>>, "ignored")
          /\ UNCHANGED <<grid, shapes, score, selectedShapeIdx, powerUps, activePowerUp, rescueMode,
                         comboCount, streakCount, chk, regens, clears, storedPU>>
     ELSE IF canPlaceShape(r, c, shapes[selectedShapeIdx], grid)
     THEN /\ PlaceShape(r, c)
          /\ UNCHANGED <<activePowerUp, rescueMode>>
          /\ SavePowerUps
          /\ Effects(TRUE, chk)
     ELSE /\ last' = Op("click", <<r, c>>, "rejected")
          /\ UNCHANGED <<grid, shapes, score, selectedShapeIdx, powerUps, activePowerUp, rescueMode,
                         comboCount, streakCount, chk, regens, clears, storedPU>>

(***************************************************************************)
(* Reset, autosave, and the surrounding application.                       *)
(***************************************************************************)
\* resetGame, from the button of the game-over overlay
ResetClick(ok, d) ==
  /\ UNCHANGED <<cardVars, appVars>>
  /\ isSessionLoaded /\ isActive /\ isGameOver
  /\ Move
  /\ gameRound' = gameRound + 1
  /\ StorageOp(ok, Absent)
  /\ grid' = EmptyGrid
  /\ score' = 0
  /\ isGameOver' = FALSE
  /\ rescueMode' = FALSE
  /\ comboCount' = 0
  /\ streakCount' = 0
  /\ shapes' = generateShapes(d)
  /\ selectedShapeIdx' = NoIdx
  /\ holdShape' = NoShape
  /\ activePowerUp' = None
  /\ last' = Op("reset", << >>, None)
  /\ UNCHANGED <<isSessionLoaded, powerUps, regens, clears, coins, isActive, storedPU,
                 gameOverCount, gameOverScore>>
  /\ Effects(TRUE, NoCheck)

\* saveState from the 30 s interval, visibilitychange or blur
Autosave(ok) ==
  /\ UNCHANGED <<cardVars, appVars>>
  /\ isSessionLoaded
  /\ Move
  /\ saveState(ok)
  /\ last' = Op("save", << >>, IF ok THEN "done" ELSE "failed")
  /\ UNCHANGED <<grid, shapes, holdShape, score, selectedShapeIdx, isGameOver, isSessionLoaded,
                 powerUps, activePowerUp, rescueMode, comboCount, streakCount, gameRound, chk,
                 regens, clears, coins, isActive, storedPU, gameOverCount, gameOverScore>>

\* handleNavChange: the game view is left or entered.
SwitchView ==
  /\ UNCHANGED <<cardVars, appVars>>
  /\ isSessionLoaded
  /\ Move
  /\ isActive' = ~isActive
  /\ last' = Op("view", << >>, None)
  /\ UNCHANGED <<grid, shapes, holdShape, score, selectedShapeIdx, isGameOver, isSessionLoaded,
                 powerUps, activePowerUp, rescueMode, comboCount, streakCount, gameRound,
                 regens, clears, coins, stored, storedPU, gameOverCount, gameOverScore, fails>>
  /\ Effects(FALSE, chk)

\* PackOpener buys a pack: deductCoins(PACK_COST).
ShopSpend ==
  /\ UNCHANGED <<cardVars, appVars>>
  /\ isSessionLoaded /\ ~isActive
  /\ deductCoins(coins, PACK_COST).ok
  /\ Move
  /\ coins' = deductCoins(coins, PACK_COST).coins
  /\ last' = Op("shop", << >>, None)
  /\ UNCHANGED <<grid, shapes, holdShape, score, selectedShapeIdx, isGameOver, isSessionLoaded,
                 powerUps, activePowerUp, rescueMode, comboCount, streakCount, gameRound, chk,
                 regens, clears, isActive, stored, storedPU, gameOverCount, gameOverScore, fails>>

\* The page is unloaded (beforeunload runs saveState) and the app is started again.
Restart(ok) ==
  /\ UNCHANGED <<cardVars, appVars>>
  /\ isSessionLoaded
  /\ Move
  /\ saveState(ok)
  /\ grid' = EmptyGrid
  /\ shapes' = << >>
  /\ holdShape' = NoShape
  /\ score' = 0
  /\ selectedShapeIdx' = NoIdx
  /\ isGameOver' = FALSE
  /\ isSessionLoaded' = FALSE
  /\ powerUps' = InitialPowerUps
  /\ activePowerUp' = None
  /\ rescueMode' = FALSE
  /\ comboCount' = 0
  /\ streakCount' = 0
  /\ gameRound' = 0
  /\ chk' = NoCheck
  /\ regens' = << >>
  /\ clears' = << >>
  /\ isActive' = TRUE
  /\ last' = Op("restart", << >>, IF ok THEN "done" ELSE "failed")
  /\ UNCHANGED <<coins, storedPU, gameOverCount, gameOverScore>>

Next ==
  \/ \E ok \in BOOLEAN : Startup(ok)
  \/ \E idx \in 1..3 : SelectShape(idx)
  \/ RotateButton
  \/ HoldButton
  \/ \E p \in ClickCells : GridClick(p[1], p[2])
  \/ \E type \in PlayerKinds : PowerUpClick(type)
  \/ \E ok \in BOOLEAN, d \in Draws : ResetClick(ok, d)
  \/ \E ok \in BOOLEAN : Autosave(ok)
  \/ SwitchView
  \/ ShopSpend
  \/ \E ok \in BOOLEAN : Restart(ok)
  \/ Tick
  \/ \E d \in Draws : FireRegen(d)
  \/ \E d \in Draws : FireClear(d)
  \/ FireCheck

Spec == Init /\ [][Next]_vars

(***************************************************************************)
(* The game in play: the session SeedPlayable restored by init() and a dock *)
(* piece selected, followed by placements, power-ups and the timers.        *)
(***************************************************************************)
ClearInit ==
  /\ CardIdle /\ AppIdle
  /\ \E w \in SeedWallets :
       /\ coins = w.coins
       /\ powerUps = IF w.powerUps # Absent THEN w.powerUps[1] ELSE InitialPowerUps
  /\ storedPU = Present(powerUps)
  /\ stored = Present(SeedPlayable)
  /\ grid = SeedPlayable.grid
  /\ shapes = SeedPlayable.shapes
  /\ holdShape = SeedPlayable.holdShape
  /\ score = SeedPlayable.score
  /\ comboCount = SeedPlayable.comboCount
  /\ streakCount = SeedPlayable.streakCount
  /\ rescueMode = SeedPlayable.rescueMode
  /\ isGameOver = SeedPlayable.isGameOver
  /\ isSessionLoaded = TRUE
  /\ isActive = TRUE
  /\ selectedShapeIdx \in 1..Len(shapes)
  /\ activePowerUp = None
  /\ gameRound = 0
  /\ chk = CheckTimer(grid, shapes, holdShape, powerUps, coins, score, gameRound)
  /\ regens = << >>
  /\ clears = << >>
  /\ gameOverCount = 0
  /\ gameOverScore = 0
  /\ last = Op("select", <<selectedShapeIdx>>, "selected")
  /\ moves = 0
  /\ fails = 0

ClearNext ==
  \/ \E idx \in 1..3 : SelectShape(idx)
  \/ RotateButton
  \/ HoldButton
  \/ \E p \in ClickCells : GridClick(p[1], p[2])
  \/ \E type \in PlayerKinds : PowerUpClick(type)
  \/ Tick
  \/ \E d \in Draws : FireRegen(d)
  \/ \E d \in Draws : FireClear(d)
  \/ FireCheck

ClearSpec == ClearInit /\ [][ClearNext]_vars

(***************************************************************************)
(* CardComponent: effects, handlers and asynchronous completions.          *)
(***************************************************************************)
\* URL.revokeObjectURL(h), counted up to 2 calls; h = 0: no call is made.
Revoke(u, h) == IF h = 0 THEN u ELSE [u EXCEPT ![h].revoked = IF @ < 2 THEN @ + 1 ELSE @]

\* A flag "mounted" of an effect run, after the cleanup of that run.
Cleaned(flag) == IF flag = "live" THEN "dead" ELSE flag

\* Variant of the effect whose cleanup leaves a pending debounce timer in
\* place (C34 fails under it).
rerunKeepsTimer(c) ==
  IF c.mount # "mounted" THEN c
  ELSE [c EXCEPT !.load = Cleaned(@), !.gen = Cleaned(@),
                 !.timer = IF @ # "none" THEN @
                           ELSE IF c.isVisible THEN "load" ELSE "unload"]

\* The main image effect runs again after a render that changed one of its
\* dependencies: its cleanup, then its body, which sets one debounce timer.
rerun(c) ==
  IF c.mount # "mounted" THEN c
  ELSE [c EXCEPT !.load = Cleaned(@), !.gen = Cleaned(@),
                 !.timer = IF c.isVisible THEN "load" ELSE "unload"]

\* setImageStatus(status): a state update, lost after the unmount.
setImageStatus(c, status) ==
  IF c.mount = "mounted" THEN [c EXCEPT !.imageStatus = status] ELSE c

\* updateImageFromBase64, h the URL it creates: the ref is set, and the
\* state too while the instance is mounted (the render runs the effect).
updateImageFromBase64(c, h) ==
  IF c.mount = "mounted"
  THEN rerun([c EXCEPT !.blobUrlRef = h, !.generatedImageBlobUrl = h])
  ELSE [c EXCEPT !.blobUrlRef = h]

\* updateImageFromBase64(base64); setImageStatus('success')
decode(c) == setImageStatus(updateImageFromBase64(c, Len(urls) + 1), "success")

\* handleUpdateCardState (onImageSaved): the inventory's card becomes a new
\* object with imageUrl 'stored', a new card prop for the instances that
\* follow the inventory. App renders, and its handleUpdateCardState is a new
\* function: a new onImageSaved prop for every instance.
saved(cs) ==
  [j \in Insts |-> IF cs[j].mount = "mounted"
                   THEN rerun([cs[j] EXCEPT !.imageUrl = IF j \in FollowsInventory
                                                         THEN "stored" ELSE @])
                   ELSE cs[j]]

\* The end of a step of instance i that leaves it as c: it decodes an image
\* (revoking the URL of the ref, creating one), and reports the save.
Finish(i, c, decodes, saves) ==
  LET cs == [cards EXCEPT ![i] = IF decodes THEN decode(c) ELSE c]
  IN /\ decodes => Len(urls) < MaxUrls
     /\ urls' = IF decodes
                THEN Append(Revoke(urls, c.blobUrlRef), [owner |-> i, revoked |-> 0])
                ELSE urls
     /\ cards' = IF saves THEN saved(cs) ELSE cs
     /\ inventoryImageUrl' = IF saves THEN "stored" ELSE inventoryImageUrl

\* generate(), called with the mounted flag of its effect run.
generate(c, flag) ==
  IF CardId \in generatingCardIds THEN c
  ELSE [setImageStatus(c, "loading") EXCEPT !.gen = flag]

\* Collection renders an instance: the grid cell, or the modal on a click.
MountCard(i) ==
  /\ cards[i].mount = "new"
  /\ cards' = [cards EXCEPT ![i] = [NewCard EXCEPT !.mount = "mounted", !.timer = "unload",
                                                   !.imageUrl = inventoryImageUrl]]
  /\ UNCHANGED <<urls, generatingCardIds, dbImage, inventoryImageUrl>>
  /\ UNCHANGED <<gameVars, appVars, pack>>

\* The IntersectionObserver callback: setIsVisible(entry.isIntersecting).
Observe(i) ==
  /\ cards[i].mount = "mounted"
  /\ cards' = [cards EXCEPT ![i] = rerun([@ EXCEPT !.isVisible = ~@])]
  /\ UNCHANGED <<urls, generatingCardIds, dbImage, inventoryImageUrl>>
  /\ UNCHANGED <<gameVars, appVars, pack>>

\* A debounce timer fires: loadOrGenerate, on the closure of its effect run.
FireTimer(i) ==
  LET c == cards[i]
      c0 == [c EXCEPT !.timer = "none"]
  IN /\ c.mount = "mounted" /\ c.timer # "none"
     /\ IF c.timer = "unload"
        THEN IF c.generatedImageBlobUrl # 0
             THEN /\ urls' = Revoke(urls, c.blobUrlRef)
                  /\ cards' = [cards EXCEPT ![i] =
                       rerun([c0 EXCEPT !.blobUrlRef = 0, !.generatedImageBlobUrl = 0,
                                        !.imageStatus = "idle"])]
                  /\ UNCHANGED inventoryImageUrl
             ELSE Finish(i, c0, FALSE, FALSE)
        ELSE IF c.generatedImageBlobUrl # 0
        THEN Finish(i, c0, FALSE, FALSE)
        ELSE IF c.imageUrl = "stored"
        THEN Finish(i, [c0 EXCEPT !.imageStatus = "loading", !.load = "live", !.loadUrl = "stored"],
                    FALSE, FALSE)
        ELSE IF c.imageUrl = "none"
        THEN Finish(i, [c0 EXCEPT !.load = "live", !.loadUrl = "none"], FALSE, FALSE)
        ELSE Finish(i, c0, TRUE, FALSE)
     /\ UNCHANGED <<generatingCardIds, dbImage>>
     /\ UNCHANGED <<gameVars, appVars, pack>>

\* The outcomes of a storageService call on the card store: the request is
\* done; getDB fails, which the call catches (nothing is done, nothing is
\* raised); or the request fails and the promise the call returned rejects.
StorageResults == {"done", "noop", "rejected"}

\* The end of a step of instance i that leaves it as c and decodes an image,
\* when saveCard rejects after the decode and the handler's catch sets status.
FinishThrown(i, c, status) ==
  /\ Len(urls) < MaxUrls
  /\ urls' = Append(Revoke(urls, c.blobUrlRef), [owner |-> i, revoked |-> 0])
  /\ cards' = [cards EXCEPT ![i] = setImageStatus(decode(c), status)]
  /\ UNCHANGED inventoryImageUrl

\* storageService.getCard(card.id) of loadOrGenerate settles.
LoadDone(i, read) ==
  LET c == cards[i]
      c0 == [c EXCEPT !.load = "none", !.loadUrl = "none"]
      live == c.load = "live"
      found == read = "done" /\ dbImage
      thrown == read = "rejected" /\ c.loadUrl = "stored"
      generates == /\ ~thrown
                   /\ IF c.loadUrl = "stored" THEN live /\ ~found ELSE ~(live /\ found)
  IN /\ c.load # "none"
     /\ IF thrown
        THEN Finish(i, IF live THEN setImageStatus(c0, "error") ELSE c0, FALSE, FALSE)
        ELSE IF live /\ found
        THEN Finish(i, c0, TRUE, c.loadUrl = "none")
        ELSE Finish(i, IF generates THEN generate(c0, c.load) ELSE c0, FALSE, FALSE)
     /\ generatingCardIds' = IF generates THEN {CardId} ELSE generatingCardIds
     /\ UNCHANGED dbImage
     /\ UNCHANGED <<gameVars, appVars, pack>>

\* generateCardArt of generate() resolves, with an image (ok) or without;
\* put is the outcome of the saveCard that follows an image. When saveCard
\* rejects, the mounted flag the catch tests is false: the render after the
\* decode has run the cleanup of the effect.
GenDone(i, ok, put) ==
  LET c == cards[i]
      c0 == [c EXCEPT !.gen = "none"]
  IN /\ c.gen # "none"
     /\ IF c.gen = "live"
        THEN IF ok
             THEN /\ Finish(i, c0, TRUE, put # "rejected")
                  /\ dbImage' = (dbImage \/ put = "done")
             ELSE Finish(i, setImageStatus(c0, "error"), FALSE, FALSE) /\ UNCHANGED dbImage
        ELSE Finish(i, c0, FALSE, FALSE) /\ UNCHANGED dbImage
     /\ generatingCardIds' = {}
     /\ UNCHANGED <<gameVars, appVars, pack>>

\* handleRetryGeneration, up to its await.
RetryClick(i) ==
  LET c == cards[i]
  IN /\ c.mount = "mounted" /\ c.imageStatus = "error" /\ ~c.retry
     /\ Finish(i, [c EXCEPT !.imageStatus = "loading", !.retry = TRUE], FALSE, FALSE)
     /\ UNCHANGED <<generatingCardIds, dbImage>>
     /\ UNCHANGED <<gameVars, appVars, pack>>

\* generateCardArt of handleRetryGeneration resolves; put is the outcome of
\* the saveCard that follows an image.
RetryDone(i, ok, put) ==
  LET c == cards[i]
      c0 == [c EXCEPT !.retry = FALSE]
  IN /\ c.retry
     /\ IF ok
        THEN /\ IF put = "rejected"
                THEN FinishThrown(i, c0, "error")
                ELSE Finish(i, c0, TRUE, TRUE)
             /\ dbImage' = (dbImage \/ put = "done")
        ELSE Finish(i, setImageStatus(c0, "error"), FALSE, FALSE) /\ UNCHANGED dbImage
     /\ UNCHANGED generatingCardIds
     /\ UNCHANGED <<gameVars, appVars, pack>>

\* handleEditSubmit and confirmEditArt, up to its await.
EditConfirm(i) ==
  LET c == cards[i]
  IN /\ c.mount = "mounted" /\ c.imageStatus # "loading" /\ c.generatedImageBlobUrl # 0 /\ ~c.edit
     /\ Finish(i, [c EXCEPT !.imageStatus = "loading", !.edit = TRUE], FALSE, FALSE)
     /\ UNCHANGED <<generatingCardIds, dbImage>>
     /\ UNCHANGED <<gameVars, appVars, pack>>

\* editCardArt of confirmEditArt resolves with an image (ok), or fails; put
\* is the outcome of the saveCard that follows an image.
EditDone(i, ok, put) ==
  LET c == cards[i]
      c0 == [c EXCEPT !.edit = FALSE]
  IN /\ c.edit
     /\ IF ok
        THEN /\ IF put = "rejected"
                THEN FinishThrown(i, c0, "success")
                ELSE Finish(i, c0, TRUE, TRUE)
             /\ dbImage' = (dbImage \/ put = "done")
        ELSE Finish(i, setImageStatus(c0, "success"), FALSE, FALSE) /\ UNCHANGED dbImage
     /\ UNCHANGED generatingCardIds
     /\ UNCHANGED <<gameVars, appVars, pack>>

\* The instance unmounts: the cleanup of the image effect, and the cleanup
\* that revokes blobUrlRef.current. Its state is gone; the ref and the
\* closures of its pending operations stay.
UnmountCard(i) ==
  LET c == cards[i]
  IN /\ c.mount = "mounted"
     /\ cards' = [cards EXCEPT ![i] =
          [NewCard EXCEPT !.mount = "unmounted", !.blobUrlRef = c.blobUrlRef,
                          !.load = Cleaned(c.load), !.loadUrl = c.loadUrl,
                          !.gen = Cleaned(c.gen), !.retry = c.retry, !.edit = c.edit]]
     /\ urls' = Revoke(urls, c.blobUrlRef)
     /\ UNCHANGED <<generatingCardIds, dbImage, inventoryImageUrl>>
     /\ UNCHANGED <<gameVars, appVars, pack>>

\* App renders after a change of its own state (handleNavChange): each
\* instance receives a new onImageSaved, a dependency of the image effect.
Rerender ==
  /\ \E i \in Insts : cards[i].mount = "mounted"
  /\ cards' = [i \in Insts |-> rerun(cards[i])]
  /\ UNCHANGED <<urls, generatingCardIds, dbImage, inventoryImageUrl>>
  /\ UNCHANGED <<gameVars, appVars, pack>>

\* The game idle, no card mounted, over what the inventory and the database
\* hold of the card.
CardInit ==
  /\ GameInit /\ stored = Absent /\ coins = 0 /\ storedPU = Present(NoPowerUps)
  /\ cards = [i \in Insts |-> NewCard]
  /\ urls = << >>
  /\ generatingCardIds = {}
  /\ dbImage \in BOOLEAN
  /\ inventoryImageUrl \in ImageUrls
  /\ pack = NoPack
  /\ AppIdle

CardNext ==
  \/ \E i \in Insts : MountCard(i)
  \/ \E i \in Insts : Observe(i)
  \/ \E i \in Insts : FireTimer(i)
  \/ \E i \in Insts : LoadDone(i, "done")
  \/ \E i \in Insts, ok \in BOOLEAN : GenDone(i, ok, "done")
  \/ \E i \in Insts : RetryClick(i)
  \/ \E i \in Insts, ok \in BOOLEAN : RetryDone(i, ok, "done")
  \/ \E i \in Insts : EditConfirm(i)
  \/ \E i \in Insts, ok \in BOOLEAN : EditDone(i, ok, "done")
  \/ \E i \in Insts : UnmountCard(i)
  \/ Rerender

CardSpec == CardInit /\ [][CardNext]_vars

\* One card display instance (the grid's, the modal never opened) over a
\* card store whose requests can fail.
StorageInit ==
  /\ GameInit /\ stored = Absent /\ coins = 0 /\ storedPU = Present(NoPowerUps)
  /\ cards = [i \in Insts |-> IF i \in FollowsInventory
                              THEN NewCard ELSE [NewCard EXCEPT !.mount = "unmounted"]]
  /\ urls = << >>
  /\ generatingCardIds = {}
  /\ dbImage \in BOOLEAN
  /\ inventoryImageUrl \in ImageUrls
  /\ pack = NoPack
  /\ AppIdle

StorageNext ==
  \/ \E i \in Insts : MountCard(i)
  \/ \E i \in Insts : Observe(i)
  \/ \E i \in Insts : FireTimer(i)
  \/ \E i \in Insts, read \in StorageResults : LoadDone(i, read)
  \/ \E i \in Insts, ok \in BOOLEAN, put \in StorageResults : GenDone(i, ok, put)
  \/ \E i \in Insts : RetryClick(i)
  \/ \E i \in Insts, ok \in BOOLEAN, put \in StorageResults : RetryDone(i, ok, put)
  \/ \E i \in Insts : EditConfirm(i)
  \/ \E i \in Insts, ok \in BOOLEAN, put \in StorageResults : EditDone(i, ok, put)
  \/ \E i \in Insts : UnmountCard(i)
  \/ Rerender

StorageSpec == StorageInit /\ [][StorageNext]_vars

(***************************************************************************)
(* App: meld of the duplicates of a card.                                  *)
(***************************************************************************)
RECURSIVE SumOver(_, _)
\* copies.forEach(c => total += reward(c))
SumOver(copies, field) ==
  IF copies = << >> THEN 0
  ELSE MELD_REWARDS[Head(copies).rarity][field] + SumOver(Tail(copies), field)

RECURSIVE LevelUps(_, _)
\* handleGainXP: the while loop, from tempLevel l and tempXP xp.
LevelUps(l, xp) ==
  IF l < MaxLevel /\ xp >= getXpForNextLevel(l)
  THEN LET n == LevelUps(l + 1, xp - getXpForNextLevel(l))
       IN [n EXCEPT !.reward = @ + ((l + 1) * 50 + 100)]
  ELSE [level |-> l, xp |-> xp, reward |-> 0]

\* A sort key that orders nothing: the first copy is kept.
rankFirstCopy(c) == 0

\* The sort key of handleMeldCards: shiny first, then an image.
rank(c) == (IF c.isShiny THEN 2 ELSE 0) + (IF c.imageUrl # "none" THEN 1 ELSE 0)

\* allCopies.sort(...)[0]: the sort is stable, its first element is the
\* first copy of the best rank.
bestCard(copies) ==
  copies[CHOOSE k \in 1..Len(copies) :
           \A j \in 1..Len(copies) :
             /\ rank(copies[j]) <= rank(copies[k])
             /\ j < k => rank(copies[j]) < rank(copies[k])]

\* Collection's meld button on the selected card: handleMeldCards.
handleMeldCards(cardToMeld) ==
  LET allCopies == SelectSeq(inventory, LAMBDA c : c.name = cardToMeld.name)
      best == bestCard(allCopies)
      copiesToRemove == SelectSeq(allCopies, LAMBDA c : c.id # best.id)
      idsToRemove == {copiesToRemove[k].id : k \in 1..Len(copiesToRemove)}
      totalCoins == SumOver(copiesToRemove, "coins")
      totalXP == SumOver(copiesToRemove, "xp")
      gained == LevelUps(level, currentXP + totalXP)
  IN /\ UNCHANGED cardVars
     /\ IF Len(allCopies) <= 1 \/ Len(copiesToRemove) = 0
        THEN UNCHANGED <<gameVars, appVars>>
        ELSE /\ cardStore' = cardStore \ idsToRemove
             /\ inventory' = SelectSeq(inventory, LAMBDA c : c.id \notin idsToRemove)
             /\ coins' = coins + totalCoins + gained.reward
             /\ level' = gained.level
             /\ currentXP' = gained.xp
             /\ award' = [name |-> cardToMeld.name, coins |-> totalCoins, xp |-> totalXP]
             /\ UNCHANGED <<grid, shapes, holdShape, score, selectedShapeIdx, isGameOver,
                            isSessionLoaded, powerUps, activePowerUp, rescueMode, comboCount,
                            streakCount, gameRound, chk, regens, clears, isActive, stored,
                            storedPU, gameOverCount, gameOverScore, last, moves, fails>>

\* The cards a collection holds: an id of its own each, a name, a rarity.
SeedCards(id) ==
  [id : {id}, name : Names, rarity : SeedRarities, isShiny : BOOLEAN,
   imageUrl : {"none", "stored"}]

\* A loaded collection of MaxCards cards, each of them in the card store.
MeldInit ==
  /\ GameInit /\ stored = Absent /\ coins = 0 /\ storedPU = Present(NoPowerUps)
  /\ CardIdle
  /\ inventory \in [1..MaxCards -> UNION {SeedCards(id) : id \in 1..MaxCards}]
  /\ \A k \in 1..MaxCards : inventory[k].id = k
  /\ cardStore = 1..MaxCards
  /\ level = 1
  /\ currentXP = 0
  /\ award = NoAward

MeldNext == \E k \in 1..Len(inventory) : handleMeldCards(inventory[k])

MeldSpec == MeldInit /\ [][MeldNext]_vars

(***************************************************************************)
(* PackOpener: the pack that holds the card, and addToCollection.          *)
(***************************************************************************)
\* openPack with a preloaded pack: deductCoins, startOptimisticGeneration
\* for packCards[0], and the reveal timer.
OpenPack(first) ==
  LET paid == deductCoins(coins, PACK_COST)
  IN /\ pack.appState = "IDLE" /\ pack.bulk = "none"
     /\ paid.ok
     /\ coins' = paid.coins
     /\ pack' = [pack EXCEPT !.appState = "OPENING", !.first = first, !.optimistic = first,
                             !.cache = FALSE]
     /\ cards' = [i \in Insts |-> rerun(cards[i])]
     /\ UNCHANGED <<urls, generatingCardIds, dbImage, inventoryImageUrl, appVars>>
     /\ UNCHANGED <<grid, shapes, holdShape, score, selectedShapeIdx, isGameOver,
                    isSessionLoaded, powerUps, activePowerUp, rescueMode, comboCount,
                    streakCount, gameRound, chk, regens, clears, isActive, stored,
                    storedPU, gameOverCount, gameOverScore, last, moves, fails>>

\* generateCardArt of startOptimisticGeneration resolves, with an image (ok)
\* or without: the image goes to generatedImagesCache.
OptimisticDone(ok) ==
  /\ pack.optimistic
  /\ pack' = [pack EXCEPT !.optimistic = FALSE, !.cache = ok]
  /\ UNCHANGED <<cards, urls, generatingCardIds, dbImage, inventoryImageUrl>>
  /\ UNCHANGED <<gameVars, appVars>>

\* finalizeReveal: the cached image is merged into the card, and
\* onCardsRevealed = addToCollection: setInventory, saveCards (up to its
\* first await) and handleGainXP(150).
FinalizeReveal ==
  LET gained == LevelUps(level, currentXP + 150)
  IN /\ pack.appState = "OPENING"
     /\ pack' = [pack EXCEPT !.appState = "REVEALED",
                             !.bulk = IF pack.cache THEN "pending data" ELSE "pending none"]
     /\ inventoryImageUrl' = IF pack.cache THEN "data" ELSE "none"
     /\ coins' = coins + gained.reward
     /\ level' = gained.level
     /\ currentXP' = gained.xp
     /\ cards' = [i \in Insts |-> rerun(cards[i])]
     /\ UNCHANGED <<urls, generatingCardIds, dbImage, inventory, cardStore, award>>
     /\ UNCHANGED <<grid, shapes, holdShape, score, selectedShapeIdx, isGameOver,
                    isSessionLoaded, powerUps, activePowerUp, rescueMode, comboCount,
                    streakCount, gameRound, chk, regens, clears, isActive, stored,
                    storedPU, gameOverCount, gameOverScore, last, moves, fails>>

\* saveCards, after getDB and the compression: store.put(card) replaces the
\* record of the card by the card it was given.
BulkDone ==
  /\ pack.bulk \in {"pending none", "pending data"}
  /\ dbImage' = (pack.bulk = "pending data")
  /\ pack' = [pack EXCEPT !.bulk = "done"]
  /\ UNCHANGED <<cards, urls, generatingCardIds, inventoryImageUrl>>
  /\ UNCHANGED <<gameVars, appVars>>

\* Collection renders the card once the inventory holds it.
MountRevealed(i) == pack.appState = "REVEALED" /\ MountCard(i)

\* A pack not yet opened, its card in no store, coins for one pack.
PackInit ==
  /\ GameInit /\ stored = Absent /\ coins >= PACK_COST /\ storedPU = Present(NoPowerUps)
  /\ cards = [i \in Insts |-> IF i \in FollowsInventory
                              THEN NewCard ELSE [NewCard EXCEPT !.mount = "unmounted"]]
  /\ urls = << >>
  /\ generatingCardIds = {}
  /\ dbImage = FALSE
  /\ inventoryImageUrl = "none"
  /\ pack = NoPack
  /\ AppIdle

PackNext ==
  \/ \E first \in BOOLEAN : OpenPack(first)
  \/ \E ok \in BOOLEAN : OptimisticDone(ok)
  \/ FinalizeReveal
  \/ BulkDone
  \/ \E i \in Insts : MountRevealed(i)
  \/ \E i \in Insts : Observe(i)
  \/ \E i \in Insts : FireTimer(i)
  \/ \E i \in Insts : LoadDone(i, "done")
  \/ \E i \in Insts, ok \in BOOLEAN : GenDone(i, ok, "done")
  \/ \E i \in Insts : RetryClick(i)
  \/ \E i \in Insts, ok \in BOOLEAN : RetryDone(i, ok, "done")

PackSpec == PackInit /\ [][PackNext]_vars

(***************************************************************************)
(* canPlaceShape and rotateLayout applied to arbitrary pieces and grids.   *)
(***************************************************************************)
\* Rows and columns of a layout.
MaxDim == 3

\* The rectangular 0/1 layouts of at most MaxDim rows and columns.
Layouts == UNION {[1..R -> [1..C -> {0, 1}]] : <<R, C>> \in (1..MaxDim) \X (1..MaxDim)}

\* The grids passed to canPlaceShape: empty, full, and full but for some cells.
PassedGrids ==
  {EmptyGrid, HoleGrid({}), HoleGrid(Diagonal), HoleGrid({<<6, 7>>, <<7, 6>>, <<7, 7>>})}

\* The anchors passed to canPlaceShape: inside the grid, on its edges, outside.
Anchors == {-1, 0, 6, 7, 8}

\* A piece and a grid, nothing else of the game started.
PureInit ==
  /\ grid \in PassedGrids
  /\ \E l \in Layouts : shapes = <<[tpl |-> "any", layout |-> l, color |-> 3]>>
  /\ holdShape = NoShape /\ score = 0 /\ selectedShapeIdx = NoIdx
  /\ isGameOver = FALSE /\ isSessionLoaded = FALSE
  /\ powerUps = InitialPowerUps /\ activePowerUp = None /\ rescueMode = FALSE
  /\ comboCount = 0 /\ streakCount = 0 /\ gameRound = 0
  /\ chk = NoCheck /\ regens = << >> /\ clears = << >>
  /\ coins = 0 /\ storedPU = Present(NoPowerUps) /\ isActive = TRUE /\ stored = Absent
  /\ gameOverCount = 0 /\ gameOverScore = 0
  /\ last = Op("init", << >>, None)
  /\ moves = 0 /\ fails = 0
  /\ CardIdle /\ AppIdle

\* canPlaceShape(r, c, shape, currentGrid) is called; last records its result.
CallCanPlaceShape(r, c) ==
  /\ last' = Op("canPlaceShape", <<r, c>>,
                IF canPlaceShape(r, c, shapes[1], grid) THEN "true" ELSE "false")
  /\ UNCHANGED <<grid, shapes, holdShape, score, selectedShapeIdx, isGameOver, isSessionLoaded,
                 powerUps, activePowerUp, rescueMode, comboCount, streakCount, gameRound, chk,
                 regens, clears, coins, isActive, stored, storedPU, gameOverCount,
                 gameOverScore, moves, fails>>
  /\ UNCHANGED <<cardVars, appVars>>

\* rotateLayout(shape.layout) is called; the piece takes the result.
CallRotateLayout ==
  /\ shapes' = <<[shapes[1] EXCEPT !.layout = rotateLayout(@)]>>
  /\ last' = Op("rotateLayout", << >>, None)
  /\ UNCHANGED <<grid, holdShape, score, selectedShapeIdx, isGameOver, isSessionLoaded,
                 powerUps, activePowerUp, rescueMode, comboCount, streakCount, gameRound, chk,
                 regens, clears, coins, isActive, stored, storedPU, gameOverCount,
                 gameOverScore, moves, fails>>
  /\ UNCHANGED <<cardVars, appVars>>

PureNext ==
  \/ \E r \in Anchors, c \in Anchors : CallCanPlaceShape(r, c)
  \/ CallRotateLayout

PureSpec == PureInit /\ [][PureNext]_vars

(***************************************************************************)
(* The modes of the game.                                                  *)
(***************************************************************************)
\* A loaded, non-terminal game in the visible view.
Running == isSessionLoaded /\ isActive /\ ~isGameOver

\* Some dock piece, or the held piece, fits somewhere in some rotation.
Playable == canMove(shapes, holdShape, grid)

\* Running, stuck, and not flagged.
StuckIdle == Running /\ ~rescueMode /\ ~Playable

\* A recovery action is enabled: a unit in the inventory, or coins for some kind.
RecoveryEnabled == hasPowerUps(powerUps) \/ canBuy(coins)

\* A regeneration of the dock is scheduled.
RegenPending == regens # << >> \/ \E i \in 1..Len(clears) : clears[i].needsNewShapes

(***************************************************************************)
(* Stuck detection and the modes (C1 - C4).                                *)
(***************************************************************************)
\* C1: in a running game where no dock piece and no held piece fits in any
\* rotation, the engine is on its way to setting the rescue or the terminal
\* flag: the stuck check is pending, or the regeneration of the dock after
\* which one is scheduled; it is never idle for good.
C1_StuckIsChecked == StuckIdle => (chk # NoCheck \/ RegenPending)

\* Stashing the only dock piece in the empty hold slot empties the dock and
\* so schedules a new one.
HoldRedraws == Len(shapes) = 1 /\ holdShape = NoShape

\* In rescue with nothing pending, nothing placeable, and no way to a new dock.
RescueAtRest ==
  isSessionLoaded /\ ~isGameOver /\ rescueMode /\ ~TimerPending /\ ~Playable /\ ~HoldRedraws

\* C2: no dead end: a non-terminal game at rest in rescue, in which nothing
\* can be placed, has a recovery action enabled (a unit in the inventory, or
\* coins for some kind).
C2_NoDeadEnd == RescueAtRest => RecoveryEnabled

\* C3: the rescue flag and the terminal flag are never both true.
C3_RescueTerminalExclusive == ~(rescueMode /\ isGameOver)

\* C3 case: the stuck check has entered terminal / has entered rescue.
C3_TerminalEntered == isGameOver /\ last.op = "check" /\ last.res = "terminal" /\ moves > 0

\* C4: whenever the dock is empty in a loaded non-terminal game, its
\* regeneration is scheduled (so that it is replenished with 3 pieces).
C4_EmptyDockReplenished == (isSessionLoaded /\ ~isGameOver /\ shapes = << >>) => RegenPending

(***************************************************************************)
(* Terminal entry and the session snapshot (C5 - C7).                      *)
(***************************************************************************)
GameOverEntry == ~isGameOver /\ isGameOver'

\* C5: a step enters terminal exactly when it emits the game-over event, the
\* event carries the score at that moment, and terminal is left only by a
\* reset (or by a new start of the program): one event per entry.
C5_GameOverEmittedOnce ==
  [][/\ GameOverEntry => (gameOverCount' = gameOverCount + 1 /\ gameOverScore' = score')
     /\ ~GameOverEntry => (gameOverCount' = gameOverCount /\ gameOverScore' = gameOverScore)
     /\ (isGameOver /\ ~isGameOver') => last'.op \in {"reset", "restart"}]_vars

\* C5 case: terminal was entered after a placement had changed the score.
C5_TerminalAfterPlacement == isGameOver /\ gameOverCount = 1 /\ gameOverScore = 13 /\ score = 13

PieceCells(r, c, shape) ==
  {<<r + i - 1, c + j - 1>> : <<i, j>> \in
     {q \in (1..Len(shape.layout)) \X (1..Len(shape.layout[1])) : shape.layout[q[1]][q[2]] = 1}}

\* No targeted cell is out of bounds or on a filled cell.
Legal(r, c, shape, g) == \A q \in PieceCells(r, c, shape) : q \in Cells /\ g[q] = 0

Stamped(r, c, shape, g) == [p \in Cells |-> IF p \in PieceCells(r, c, shape) THEN shape.color ELSE g[p]]

LinesCompleted(g) ==
  Cardinality({i \in Idx : \A j \in Idx : g[<<i, j>>] # 0})
    + Cardinality({j \in Idx : \A i \in Idx : g[<<i, j>>] # 0})

\* floor(totalLines * 150 * lineMultiplier * (1 + 0.2 c) * (1 + 0.1 s)), exactly.
ExactBonus(totalLines, c, s) ==
  IF totalLines > 3 THEN 9 * totalLines * (5 + c) * (10 + s)
  ELSE IF totalLines > 1 THEN (12 * totalLines * totalLines * (5 + c) * (10 + s)) \div 5
  ELSE 3 * totalLines * (5 + c) * (10 + s)

\* This step is a grid click with no power-up armed, in a loaded game.
PlacementRequest == isSessionLoaded /\ activePowerUp = None /\ last'.op = "click"

\* This step is a legal placement of the selected piece in a non-terminal game.
LegalPlacement ==
  /\ PlacementRequest /\ ~isGameOver /\ selectedShapeIdx # NoIdx
  /\ Legal(last'.arg[1], last'.arg[2], shapes[selectedShapeIdx], grid)

PlacedGrid == Stamped(last'.arg[1], last'.arg[2], shapes[selectedShapeIdx], grid)

PlacedCells == Cardinality(PieceCells(last'.arg[1], last'.arg[2], shapes[selectedShapeIdx]))

\* C8: a legal placement completing totalLines > 0 rows and columns adds 1
\* to comboCount and to streakCount, and adds to the score the cells filled
\* plus floor(totalLines*150*lineMultiplier*(1+0.2*combo)*(1+0.1*streak)).
C8_ClearingPlacementScore ==
  [][(LegalPlacement /\ LinesCompleted(PlacedGrid) > 0) =>
       /\ comboCount' = comboCount + 1
       /\ streakCount' = streakCount + 1
       /\ score' = score + PlacedCells
                     + ExactBonus(LinesCompleted(PlacedGrid), comboCount + 1, streakCount + 1)]_vars

\* C9: a legal placement of k cells completing no line adds k to the score,
\* sets comboCount and streakCount to 0, stamps exactly the k targeted cells
\* with the piece's colour, and removes exactly that piece from the dock.
C9_PlainPlacement ==
  [][(LegalPlacement /\ LinesCompleted(PlacedGrid) = 0) =>
       /\ score' = score + PlacedCells
       /\ comboCount' = 0 /\ streakCount' = 0
       /\ grid' = PlacedGrid
       /\ Len(shapes') = Len(shapes) - 1
       /\ \A i \in 1..Len(shapes') :
            shapes'[i] = shapes[IF i < selectedShapeIdx THEN i ELSE i + 1]]_vars

\* C9 case: a piece was placed without completing a line.
C9_PlacedNoLine == last.op = "click" /\ last.res = "placed" /\ score = 13 /\ comboCount = 0

\* C10: a placement request with no selected piece, or whose piece has a
\* targeted cell out of bounds or on a filled cell, changes none of grid,
\* dock, held piece, score, counters, inventory, rescue and terminal flag.
C10_RejectedPlacement ==
  [][(/\ PlacementRequest
      /\ \/ selectedShapeIdx = NoIdx
         \/ ~Legal(last'.arg[1], last'.arg[2], shapes[selectedShapeIdx], grid)) =>
       UNCHANGED core]_vars

\* C10 case: a click with a selected piece that does not fit was rejected.
C10_ClickRejected == last.op = "click" /\ last.res = "rejected" /\ selectedShapeIdx # NoIdx

(***************************************************************************)
(* Rewards, recovery and power-ups (C11 - C17), hold (C18).                *)
(***************************************************************************)
\* The units in an inventory, all kinds together.
InventoryTotal(pu) == pu.BOMB + pu.LINE + pu.COLOR + pu.SINGLE + pu.REFRESH

\* C11: a clearing placement raises the sum of the inventory counts by
\* exactly 1 when totalLines >= 3 or comboCount >= 4 or streakCount >= 5
\* (counters after the increment) and leaves it unchanged otherwise; a
\* placement that completes no line leaves the inventory unchanged.
C11_MilestoneReward ==
  [][LegalPlacement =>
       LET totalLines == LinesCompleted(PlacedGrid)
           reached == totalLines >= 3 \/ comboCount + 1 >= 4 \/ streakCount + 1 >= 5
       IN /\ totalLines > 0 =>
               InventoryTotal(powerUps') = InventoryTotal(powerUps) + (IF reached THEN 1 ELSE 0)
          /\ totalLines = 0 => powerUps' = powerUps]_vars

\* C11 case: a clearing placement after a run of 17 granted the first unit.
C11_RewardGranted ==
  last.op = "click" /\ last.res = "cleared" /\ comboCount = 18 /\ InventoryTotal(powerUps) = 1

\* Some unit is held, or the coins pay for the cheapest kind (25).
Recoverable(pu, cn) == (\E k \in PowerUpTypes : pu[k] > 0) \/ cn >= 25

\* This step is a stuck check that found nothing placeable.
StuckFound == last'.op = "check" /\ last'.res \in {"rescue", "terminal"}

\* C12: a stuck check that finds nothing placeable sets the rescue flag if,
\* on the inventory and the coins of the moment it fires, some count is
\* positive or the coins pay for some kind; it sets the terminal flag
\* otherwise.
C12_RescueIffRecoverable ==
  [][StuckFound =>
       IF Recoverable(powerUps, coins)
       THEN rescueMode' /\ ~isGameOver'
       ELSE isGameOver' /\ ~rescueMode']_vars

\* C13: in a running game whose rescue flag is set while a dock piece or the
\* held piece fits, the check that clears the flag is pending.
C13_RescueClearedWhenPlayable == (Running /\ rescueMode /\ Playable) => chk # NoCheck

\* The cells a power-up of a kind at target (r, c) affects, as the contract
\* states them.
AffectedSet(kind, r, c, g) ==
  IF kind = "BOMB" THEN {p \in Cells : p[1] - r \in {-1, 0, 1} /\ p[2] - c \in {-1, 0, 1}}
  ELSE IF kind = "LINE" THEN {p \in Cells : p[1] = r} \cup {p \in Cells : p[2] = c}
  ELSE IF kind = "COLOR" THEN {p \in Cells : g[p] = g[<<r, c>>]}
  ELSE {<<r, c>>}

\* This step is a click on the board of a non-terminal game with a
\* cell-targeted power-up armed.
PowerUpRequest ==
  /\ isSessionLoaded /\ ~isGameOver
  /\ activePowerUp \in {"BOMB", "LINE", "COLOR", "SINGLE"}
  /\ last'.op = "click"

\* The cell the click of this step targets.
Target == <<last'.arg[1], last'.arg[2]>>

\* Every cell is a valid target of area and cross, a filled one of the others.
ValidTarget == activePowerUp \in {"COLOR", "SINGLE"} => grid[Target] # 0

\* C14: an armed cell-targeted power-up applied at a valid target empties
\* the filled cells of its affected set and no other cell, adds 20 per
\* emptied cell to the score, takes one unit of its kind from the
\* inventory, disarms, and clears the rescue flag.
C14_PowerUpApplied ==
  [][(PowerUpRequest /\ ValidTarget) =>
       LET affected == AffectedSet(activePowerUp, Target[1], Target[2], grid)
           emptied == {p \in affected : grid[p] # 0}
       IN /\ grid' = [p \in Cells |-> IF p \in emptied THEN 0 ELSE grid[p]]
          /\ score' = score + 20 * Cardinality(emptied)
          /\ powerUps' = [powerUps EXCEPT ![activePowerUp] = powerUps[activePowerUp] - 1]
          /\ activePowerUp' = None
          /\ ~rescueMode']_vars

\* C14 case: a power-up was applied and emptied cells.
C14_CellsEmptied ==
  last.op = "click" /\ last.res = "powerup" /\ score > 12 /\ activePowerUp = None

\* C15: an armed same-colour or single-cell power-up applied to an empty
\* cell changes none of grid, score, inventory and rescue flag.
C15_EmptyTargetRejected ==
  [][(PowerUpRequest /\ ~ValidTarget) => UNCHANGED <<grid, score, powerUps, rescueMode>>]_vars

\* C15 case: a click on an empty cell with such a power-up armed was rejected.
C15_ClickOnEmptyCell ==
  /\ last.op = "click" /\ last.res = "invalid target"
  /\ activePowerUp \in {"COLOR", "SINGLE"} /\ grid[<<last.arg[1], last.arg[2]>>] = 0

\* This step is a press of a power-up button whose kind has no unit.
PurchaseAttempt == isSessionLoaded /\ last'.op = "powerup" /\ powerUps[last'.kind] = 0

\* C16: a purchase attempt of a cell-targeted kind k with count 0 changes
\* none of coins, inventory and armed power-up when coins < cost(k); with
\* coins >= cost(k) it takes cost(k) from the coins, sets the count of k to
\* 1 and arms k, the grid unchanged.
C16_CellPowerUpPurchase ==
  [][(PurchaseAttempt /\ last'.kind \in {"BOMB", "LINE", "COLOR", "SINGLE"}) =>
       LET k == last'.kind
       IN IF coins < POWER_UP_COSTS[k]
          THEN UNCHANGED <<coins, powerUps, activePowerUp>>
          ELSE /\ coins' = coins - POWER_UP_COSTS[k]
               /\ powerUps' = [powerUps EXCEPT ![k] = 1]
               /\ activePowerUp' = k
               /\ grid' = grid]_vars

\* C16 case: a cell-targeted kind was bought and is armed with its one unit.
C16_BoughtAndArmed ==
  /\ last.op = "powerup" /\ last.res = "bought"
  /\ activePowerUp = last.kind /\ powerUps[last.kind] = 1 /\ coins < 100

\* C17: a press of dock-refresh with count 0 and coins >= 25 takes 25 from
\* the coins and leaves the count at 0; a press with a unit owned takes the
\* unit and leaves the coins. Both deal a dock of 3 at once, clear the
\* rescue flag, arm nothing, and leave grid and score unchanged.
C17_DockRefresh ==
  [][(isSessionLoaded /\ last'.op = "powerup" /\ last'.kind = "REFRESH"
        /\ (powerUps.REFRESH > 0 \/ coins >= 25)) =>
       /\ IF powerUps.REFRESH > 0
          THEN powerUps' = [powerUps EXCEPT !.REFRESH = powerUps.REFRESH - 1] /\ coins' = coins
          ELSE powerUps' = powerUps /\ coins' = coins - 25
       /\ Len(shapes') = 3 /\ \A i \in 1..3 : shapes'[i] # NoShape
       /\ ~rescueMode'
       /\ activePowerUp' = activePowerUp /\ activePowerUp' # "REFRESH"
       /\ grid' = grid /\ score' = score]_vars

\* C17 case: dock-refresh was bought with no unit owned.
C17_RefreshBought ==
  /\ last.op = "powerup" /\ last.kind = "REFRESH" /\ last.res = "bought refresh"
  /\ Len(shapes) = 3 /\ powerUps.REFRESH = 0 /\ coins = 75

\* The copies of piece x in a dock and a held slot.
Copies(x, shp, hold) ==
  Cardinality({i \in 1..Len(shp) : shp[i] = x}) + (IF hold = x THEN 1 ELSE 0)

\* The pieces of a dock and a held slot.
Pieces(shp, hold) == ({shp[i] : i \in 1..Len(shp)} \cup {hold}) \ {NoShape}

\* C18: hold with dock piece i selected swaps piece i with the held piece
\* (dock size unchanged), or with nothing held moves piece i to the held
\* slot, the dock shrinking by 1 and a regeneration scheduled if it is
\* then empty; the pieces of dock and hold together, the grid and the
\* score are unchanged. Hold with no piece selected changes no state.
C18_HoldSwapsOrStashes ==
  [][(isSessionLoaded /\ last'.op = "hold") =>
       IF selectedShapeIdx = NoIdx
       THEN UNCHANGED <<grid, shapes, holdShape, score, selectedShapeIdx, isGameOver,
                        powerUps, activePowerUp, rescueMode, comboCount, streakCount,
                        gameRound, chk, regens, clears, coins, stored, storedPU>>
       ELSE /\ holdShape' = shapes[selectedShapeIdx]
            /\ IF holdShape # NoShape
               THEN /\ Len(shapes') = Len(shapes)
                    /\ \A i \in 1..Len(shapes) :
                         shapes'[i] = IF i = selectedShapeIdx THEN holdShape ELSE shapes[i]
               ELSE /\ Len(shapes') = Len(shapes) - 1
                    /\ \A i \in 1..Len(shapes') :
                         shapes'[i] = shapes[IF i < selectedShapeIdx THEN i ELSE i + 1]
                    /\ shapes' = << >> => regens' = Append(regens, 300)
            /\ \A x \in Pieces(shapes, holdShape) \cup Pieces(shapes', holdShape') :
                 Copies(x, shapes', holdShape') = Copies(x, shapes, holdShape)
            /\ grid' = grid /\ score' = score]_vars

\* C18 case: the selected piece was swapped with the held one.
C18_Swapped ==
  last.op = "hold" /\ last.res = "swapped" /\ holdShape # NoShape /\ Len(shapes) > 0

(***************************************************************************)
(* Decoded handles of a card (C19, C20).                                   *)
(***************************************************************************)
\* The handles created and not released.
Unreleased == {h \in 1..Len(urls) : urls[h].revoked = 0}

\* The handles instance i created.
CreatedBy(i) == {h \in 1..Len(urls) : urls[h].owner = i}

\* Instance i is unmounted and none of its asynchronous operations is pending.
Settled(i) ==
  /\ cards[i].mount = "unmounted"
  /\ cards[i].load = "none" /\ cards[i].gen = "none"
  /\ ~cards[i].retry /\ ~cards[i].edit

\* C19: at every instant the mounted display instances of the card hold, all
\* together, at most one handle that was created and not released.
C19_OneHandlePerCard ==
  Cardinality({h \in Unreleased : cards[urls[h].owner].mount = "mounted"}) <= 1

\* C20: no handle is released twice, and once an instance is unmounted with
\* its load, generation, retry and edit all completed, every handle it
\* created has been released.
C20_ReleasedExactlyOnce ==
  /\ \A h \in 1..Len(urls) : urls[h].revoked <= 1
  /\ \A i \in Insts : Settled(i) => CreatedBy(i) \cap Unreleased = {}

(***************************************************************************)
(* Art generation of a card (C21 - C23).                                   *)
(***************************************************************************)
\* The generateCardArt requests for the card that have not resolved: those
\* of generate() and those of handleRetryGeneration.
GenerationsInFlight ==
  Cardinality({i \in Insts : cards[i].gen # "none"})
    + Cardinality({i \in Insts : cards[i].retry})

\* C21: at every instant at most one art-generation request for the card is
\* in flight, over all display instances and over the visibility-driven and
\* the manual-retry paths.
C21_OneGenerationInFlight == GenerationsInFlight <= 1

\* C22: whenever the generation started by the visibility-driven load of an
\* instance returns an image, the image is written to the card store and
\* the image-persisted event reaches the inventory.
C22_GeneratedImagePersisted ==
  [][\A i \in Insts :
       GenDone(i, TRUE, "done") => (dbImage' /\ inventoryImageUrl' = "stored")]_vars

\* Something is pending that can still change the image status of instance
\* i: a timer, a load or an edit of its own, or a generation for the card.
Pending(i) ==
  \/ cards[i].timer # "none" \/ cards[i].load # "none" \/ cards[i].edit
  \/ GenerationsInFlight > 0

\* C23: a mounted, visible instance is not left in the loading state once
\* no generation for the card is in flight and nothing of its own is pending
\* (a failed generation left it in the error state, which offers the retry).
C23_FailureOffersRetry ==
  \A i \in Insts :
    (cards[i].mount = "mounted" /\ cards[i].isVisible /\ cards[i].imageStatus = "loading")
      => Pending(i)

(***************************************************************************)
(* Failing storage operations (C25).                                       *)
(***************************************************************************)
\* Instance i, mounted, receives a generated image and the saveCard that
\* follows fails with outcome put.
SaveFailsAfterGeneration(i, put) ==
  /\ cards[i].mount = "mounted"
  /\ \/ RetryDone(i, TRUE, put)
     \/ cards[i].gen = "live" /\ GenDone(i, TRUE, put)

\* C25: a storage write that fails after a successful image generation is a
\* no-op for its caller: the instance displays the image, in the success
\* state.
C25_StorageFailureIsNoOp ==
  [][\A i \in Insts, put \in StorageResults \ {"done"} :
       SaveFailsAfterGeneration(i, put)
         => (cards'[i].imageStatus = "success" /\ cards'[i].generatedImageBlobUrl # 0)]_vars

(***************************************************************************)
(* Meld (C24).                                                             *)
(***************************************************************************)
\* The positions of the inventory inv that hold a card named nm.
CopiesOf(inv, nm) == {k \in 1..Len(inv) : inv[k].name = nm}

\* The cards of inv, as a set.
CardsOf(inv) == {inv[k] : k \in 1..Len(inv)}

\* The meld button is pressed on a card named nm.
MeldOf(nm) == \E k \in CopiesOf(inventory, nm) : handleMeldCards(inventory[k])

RECURSIVE RewardOf(_, _)
\* The sum of the per-rarity rewards of a set of cards.
RewardOf(cs, field) ==
  IF cs = {} THEN 0
  ELSE LET c == CHOOSE x \in cs : TRUE
       IN MELD_REWARDS[c.rarity][field] + RewardOf(cs \ {c}, field)

C26_CanPlaceIffInsideAndEmpty ==
  last.op = "canPlaceShape" =>
    LET r == last.arg[1]
        c == last.arg[2]
        l == shapes[1].layout
        fits == \A i \in 1..Len(l) : \A j \in 1..Len(l[i]) :
                  l[i][j] = 1 =>
                    /\ r + i - 1 \in 0..(GRID_SIZE - 1)
                    /\ c + j - 1 \in 0..(GRID_SIZE - 1)
                    /\ grid[<<r + i - 1, c + j - 1>>] = 0
    IN /\ last.res = "true" <=> fits
       /\ grid \in PassedGrids

\* C26 case: a piece of several rows was found to fit at the lower right
\* edge of a grid that is full but for a few cells.
C26_FitsInHoles ==
  /\ last.op = "canPlaceShape" /\ last.res = "true" /\ last.arg = <<6, 6>>
  /\ grid # EmptyGrid /\ Len(shapes[1].layout) > 1
  /\ \E j \in 1..Len(shapes[1].layout[2]) : shapes[1].layout[2][j] = 1

\* C27: rotateLayout of a layout of R rows and C columns is a layout of C
\* rows and R columns with out[c][R-1-r] = in[r][c], and four applications
\* give the layout back.
C27_RotateLaw ==
  LET in == shapes[1].layout
      out == rotateLayout(in)
      R == Len(in)
      C == Len(in[1])
  IN /\ Len(out) = C
     /\ \A c \in 0..(C - 1) : Len(out[c + 1]) = R
     /\ \A r \in 0..(R - 1) : \A c \in 0..(C - 1) : out[c + 1][(R - 1 - r) + 1] = in[r + 1][c + 1]
     /\ rotateLayout(rotateLayout(rotateLayout(rotateLayout(in)))) = in

\* C27 case: a layout that is not square, and not symmetric, was rotated.
C27_RotatedOblong ==
  /\ last.op = "rotateLayout"
  /\ Len(shapes[1].layout) = 3 /\ Len(shapes[1].layout[1]) = 2
  /\ shapes[1].layout[1] = <<1, 0>> /\ shapes[1].layout[3] = <<0, 0>>

(***************************************************************************)
(* Timers against later changes (C28 - C30).                               *)
(***************************************************************************)
\* This step is a stuck check that sets the rescue or the terminal flag.
VerdictStep ==
  /\ last'.op = "check" /\ last'.res \in {"rescue", "terminal"}
  /\ chk # NoCheck /\ chk.t = 0

\* C28: a stuck check that sets the rescue or the terminal flag evaluated the
\* dock, the held piece and the grid the engine holds at that moment.
C28_NoStaleVerdict ==
  [][VerdictStep =>
       (chk.shapes = shapes /\ chk.holdShape = holdShape /\ chk.grid = grid)]_vars

\* The round a reset started, before its first placement or power-up use
\* (each of them scores, and only a placement or a hold of the last piece
\* of the dock of that round schedules a timer of that round).
FreshRound == gameRound > 0 /\ score = 0 /\ ~isGameOver

\* C30: in the round a reset started, no regeneration timer and no deferred
\* clear scheduled before the reset fires on the dock or the grid: the grid
\* stays empty and the dock stays the one the reset generated.
C30_ResetCancelsTimers ==
  [][(FreshRound /\ last'.op \in {"regen", "clear"})
       => (shapes' = shapes /\ grid' = grid /\ grid = EmptyGrid)]_vars


\* C29: when the deferred clear of a clearing placement fires, it changes
\* only the cells of the rows and columns matched by that placement and the
\* cells that placement stamped: everywhere else the grid keeps what the
\* placements and power-ups committed since have left there.
C29_DeferredClearKeepsUpdates ==
  [][last'.op = "clear"
       => \A p \in Cells :
            (p[1] \notin clears[1].rows /\ p[2] \notin clears[1].cols
               /\ p \notin clears[1].targets)
              => grid'[p] = grid[p]]_vars

FilledByPlacement(p) ==
  \/ /\ last'.op = "click" /\ last'.res = "placed"
     /\ p \in PieceCells(last'.arg[1], last'.arg[2], shapes[selectedShapeIdx])
  \/ last'.op = "clear" /\ p \in clears[1].targets

\* The step empties cell p by the clear of a matched row or column, by a
\* power-up whose affected set holds p, or by a reset.
EmptiedByRule(p) ==
  \/ last'.op = "clear" /\ (p[1] \in clears[1].rows \/ p[2] \in clears[1].cols)
  \/ /\ last'.op = "click" /\ last'.res = "powerup"
     /\ p \in getPowerUpAffectedCells(last'.arg[1], last'.arg[2], activePowerUp, grid)
  \/ last'.op = "reset"

\* C32: in every step of the game in play the grid stays 8x8, a cell goes
\* from empty to filled only by an accepted placement that targets it, and
\* from filled to empty only by the clear of a matched row or column, by a
\* power-up whose affected set holds it, or by a reset.
C32_CellChangesAccounted ==
  [][/\ DOMAIN grid' = Cells
     /\ \A p \in Cells :
          /\ (grid[p] = 0 /\ grid'[p] # 0) => FilledByPlacement(p)
          /\ (grid[p] # 0 /\ grid'[p] = 0) => EmptiedByRule(p)]_vars


\* The step writes a snapshot while one clearing placement waits for its
\* deferred clear.
SavedWhileResolving ==
  /\ last'.op \in {"save", "restart"} /\ last'.res = "done"
  /\ isSessionLoaded /\ ~isGameOver /\ Len(clears) = 1

\* C33: a snapshot saved between a clearing placement and the firing of its
\* deferred clear holds the post-clear grid of that placement (piece
\* stamped, matched rows and columns emptied), with the dock and the score
\* of the same moment; init() restores the grid of the snapshot as it is.
C33_SnapshotWhileResolving ==
  [][SavedWhileResolving
       => /\ stored' # Absent
          /\ stored'[1].grid = finalGrid(clears[1].newGrid, clears[1].rows, clears[1].cols)
          /\ stored'[1].shapes = shapes
          /\ stored'[1].score = score]_vars


(***************************************************************************)
(* Hysteresis of the image effect (C34).                                   *)
(***************************************************************************)
\* C34: a mounted instance gives up its blob URL only when its unload timer
\* fires, which is pending only while the instance has stayed invisible
\* since the timer was set; becoming visible replaces the pending unload
\* timer by the load timer and keeps the URL; becoming invisible replaces
\* the load timer, and a load starts only when the load timer of a visible
\* instance fires.
C34_Hysteresis ==
  [][\A i \in Insts :
       LET c == cards[i]
           d == cards'[i]
       IN (c.mount = "mounted" /\ d.mount = "mounted") =>
            /\ (c.blobUrlRef # 0 /\ d.blobUrlRef = 0)
                 => (~c.isVisible /\ c.timer = "unload")
            /\ (~c.isVisible /\ d.isVisible)
                 => (d.timer = "load" /\ d.blobUrlRef = c.blobUrlRef /\ urls' = urls)
            /\ (c.isVisible /\ ~d.isVisible)
                 => (d.timer = "unload" /\ d.load # "live")
            /\ (c.load # "live" /\ d.load = "live")
                 => (c.isVisible /\ c.timer = "load")
            /\ (d.timer = "unload" => ~d.isVisible)
            /\ (d.timer = "load" => d.isVisible)]_vars

\* C34 case: an invisible instance has released the URL it held.
C34_ReleasedWhileHidden ==
  \E i \in Insts :
    /\ cards[i].mount = "mounted" /\ ~cards[i].isVisible
    /\ cards[i].blobUrlRef = 0 /\ cards[i].imageStatus = "idle"
    /\ \E h \in 1..Len(urls) : urls[h].owner = i /\ urls[h].revoked = 1


(***************************************************************************)
(* The card store and the collection after a pack is opened (C35, C36).    *)
(***************************************************************************)
\* C35: once the card store holds an image for the card, no later write
\* leaves its record without one (no card is deleted here).
C35_PayloadDurable == [][dbImage => dbImage']_vars

\* C36: once the bulk save of a card that carried its raw image has
\* completed, the collection holds for the card the marker 'stored', not
\* the raw image.
C36_CollectionHoldsMarker ==
  (pack.bulk = "done" /\ dbImage) => inventoryImageUrl = "stored"


(***************************************************************************)
(* Inventory counts, the terminal state, the selection, the counters       *)
(* (C37 - C40).                                                            *)
(***************************************************************************)
\* The step applies one unit of kind k: the armed kind on a cell, or an
\* owned dock refresh.
UnitApplied(k) ==
  \/ last'.op = "click" /\ last'.res = "powerup" /\ activePowerUp = k
  \/ last'.op = "powerup" /\ last'.res = "refresh" /\ k = "REFRESH" /\ last'.kind = k

\* The step grants one unit of kind k: a milestone reward or a purchase.
UnitGranted(k) ==
  \/ last'.op = "click" /\ last'.res = "cleared"
  \/ last'.op = "powerup" /\ last'.res = "bought" /\ last'.kind = k

BoardStep ==
  last'.op \in {"click", "select", "rotate", "hold", "powerup", "tick", "regen", "clear", "check"}

\* C38: while the terminal flag is set, no placement, hold, rotate, power-up
\* request or timer changes grid, dock, held piece, score, inventory or
\* coins, and none of them clears the terminal flag.
C38_TerminalAbsorbing ==
  [][(isGameOver /\ BoardStep)
       => (isGameOver' /\ UNCHANGED <<grid, shapes, holdShape, score, powerUps, coins>>)]_vars

C40_ComboEqualsStreak ==
  [][/\ comboCount' = streakCount'
     /\ stored' # Absent => stored'[1].comboCount = stored'[1].streakCount
     /\ (comboCount' # comboCount \/ streakCount' # streakCount) =>
          \/ /\ last'.op = "click" /\ last'.res = "cleared"
             /\ comboCount' = comboCount + 1 /\ streakCount' = streakCount + 1
          \/ /\ last'.op = "click" /\ last'.res = "placed"
             /\ comboCount' = 0 /\ streakCount' = 0
          \/ /\ last'.op \in {"reset", "restart"}
             /\ comboCount' = 0 /\ streakCount' = 0
          \/ /\ last'.op = "startup" /\ last'.res = "restored"
             /\ comboCount' = stored[1].comboCount]_vars

\* C40 case: a run of 18 clearing placements, saved by this run, has been
\* restored.
C40_RestoredRun ==
  /\ last.op = "startup" /\ last.res = "restored" /\ moves > 0
  /\ comboCount = 18 /\ streakCount = 18

====
